---- MODULE Spec2Model ----
(***************************************************************************)
(* A model of claude-accounts: the encrypted credential vault (src/db.py) *)
(* with its OAuth refresh flow, and the pty session relay (src/server.py).*)
(*                                                                         *)
(* Request handlers run in threads (socketio async_mode="threading", one  *)
(* thread per HTTP request), so every handler is a sequence of steps that *)
(* other threads interleave with.  A step is one statement against shared *)
(* state (one SQL statement, one system call, one dict operation) together*)
(* with the local computation that follows it.                             *)
(***************************************************************************)
EXTENDS Integers, Sequences, FiniteSets, TLC

\* ------------------------------------------------------------------------
\* Bounds of the model
\* ------------------------------------------------------------------------

\* Number of token pairs the token endpoint issues before it only refuses.
MaxIssued == 2
\* Number of times the clock advances.
MaxTicks == 1
\* Number of children the relay forks.
MaxSessions == 2

\* ------------------------------------------------------------------------
\* Program constants
\* ------------------------------------------------------------------------

\* Milliseconds per minute: the divisor of every "remaining minutes".
MsPerMin == 60000
\* Milliseconds per second: expires_in is in seconds, expires_at in ms.
MsPerSec == 1000
\* Seconds per minute: refresh_oauth_token's expires_in_min.
SecPerMin == 60

\* The clock advances by half a minute, so that a remaining time is not
\* always a whole number of minutes.
TickMs == MsPerMin \div 2
\* time.time() * 1000 when the model starts.
StartMs == MsPerMin

\* int(x / d) of Python for integers x and d > 0: truncation toward zero.
TruncDiv(x, d) == IF x >= 0 THEN x \div d ELSE -((-x) \div d)

\* The requests to the vault (HTTP requests, CLI commands), each handled by
\* a thread of its own.
Callers == {1, 2}
\* The socket events of the terminal relay, each handled by a thread.
Handlers == {11, 12, 13}
\* The children forked, by pid, and the credential watcher thread of each.
Pids == 1..MaxSessions
WatcherOf(i) == 20 + i
Watchers == {WatcherOf(i) : i \in Pids}
Threads == Callers \cup Handlers \cup Watchers

\* ------------------------------------------------------------------------
\* Secrets and the cipher
\* ------------------------------------------------------------------------

\* A secret is a positive number; the empty string is 0.
NoTok == 0
\* What decrypt gives when Fernet raises InvalidToken.
Corrupt == -1
\* The stored value of an empty secret: encrypt("") == "".
EmptyCt == [k |-> 0, pt |-> 0]

VARIABLES
    keyFile,    \* the key in ~/.claude-accounts/.key (0: no key file)
    osEnv,      \* os.environ of the server process
    accounts,   \* the accounts table: id -> row
    credFile,   \* ~/.claude/.credentials.json
    now,        \* the clock, in ms
    pc,         \* each caller's position: idle, in a call, done
    op,         \* each caller's call: [name, acc]
    row,        \* each caller's local row in get_launch_env and get_token_status
    resp,       \* each caller's locals of the refresh flow
    tnow,       \* each caller's local now_ms in get_launch_env and get_token_status
    res,        \* each caller's result, once done
    ord,        \* history: each call's rank among the calls started (0: none),
                \* and the calls in progress when it started
    validRt,    \* the token endpoint: the refresh tokens it will accept
    issued,     \* the token endpoint: the number of token pairs issued
    accepted,   \* history: the refresh tokens exchanged with success
    resent,     \* history: a request carried an already accepted token
    exposedOld, \* history: export_all returned an already accepted token
    terminals,  \* _terminals: sid -> {fd, pid, login_account}
    hterm,      \* each handler's local term (and initial_mtime)
    nforks,     \* the number of children forked so far
    fdOpen,     \* the process's descriptors: fd -> pid of the pty behind it, 0: closed
    child,      \* each child: none, running, zombie (exited, not waited for), reaped
    sess,       \* each session's sid, fd and login account, as its threads captured them
    loop,       \* each session's _read_loop: position, chunk read, end
    wat,        \* each login session's _watch_credentials: mtime_ref, cur
    ptyBuf,     \* each pty: the bytes its child wrote that no read has taken
    produced,   \* history: the bytes each child wrote
    delivered,  \* history: the terminal_output payloads emitted, per pty read
    ptyIn,      \* history: the number of inputs written to each pty
    closes,     \* history: the os.close calls on each session's fd
    termSig,    \* history: the os.kill calls on each session's child
    lateCapture \* history: a watcher stored or announced tokens of an ended session

vaultVars == <<keyFile, osEnv, accounts, credFile, now, pc, op, row, resp, tnow, res,
               ord, validRt, issued, accepted, resent, exposedOld>>
relayVars == <<terminals, hterm, nforks, fdOpen, child, sess, loop, wat,
               ptyBuf, produced, delivered, ptyIn, closes, termSig>>
vars == <<vaultVars, relayVars, lateCapture>>

\* _encrypt: "" stays "", anything else becomes a ciphertext under the key.
encrypt(value) ==
    IF value = NoTok THEN EmptyCt ELSE [k |-> keyFile, pt |-> value]

\* _decrypt: "" stays "", a ciphertext of another key raises InvalidToken.
decrypt(token) ==
    IF token = EmptyCt THEN NoTok
    ELSE IF token.k = keyFile THEN token.pt
    ELSE Corrupt

\* ------------------------------------------------------------------------
\* The accounts table
\* ------------------------------------------------------------------------

AccIds == {"acc_o", "acc_k"}
\* What a caller may pass as account_id: an id of the table or an unknown one.
AccArgs == AccIds \cup {"acc_x"}

\* The result of a SELECT that finds no row.
NoRow == [name |-> "", auth_type |-> "none", api_key_enc |-> EmptyCt,
          access_token_enc |-> EmptyCt, refresh_token_enc |-> EmptyCt,
          expires_at |-> 0, last_used |-> -1]

\* SELECT * FROM accounts WHERE id = ? ... fetchone()
SelectRow(a) == IF a \in DOMAIN accounts THEN accounts[a] ELSE NoRow

\* Python's None, where a number is expected.
NoneVal == -1

\* A caller's locals of refresh_oauth_token and of what it calls: the
\* refresh token it sends, the endpoint's answer, the clock read for
\* expires_at, the fields of update_account or the row of
\* _sync_credentials_file, the other top-level keys read from the
\* credentials file, the temporary file of mkstemp (none, empty, full), and
\* import_accounts's position in its list and its count.
NoResp == [status |-> "none", sent |-> NoTok, access_token |-> NoTok,
           refresh_token |-> NoTok, expires_in |-> 0, expires_at |-> 0,
           at |-> NoneVal, row |-> NoRow, other |-> 0, tmp |-> "none",
           idx |-> 0, count |-> 0, key |-> 0]

NoRes == [kind |-> "none", tag |-> "", val |-> NoTok, rem |-> NoneVal,
          has_refresh |-> FALSE, rts |-> {}]
\* A raised exception, by the error kind it stands for.
Err(e) == [NoRes EXCEPT !.kind = "err", !.tag = e]
\* An exception no caller catches, by its class.
Raised(e) == [NoRes EXCEPT !.kind = "raised", !.tag = e]
\* get_launch_env's return value: one environment variable.
Env(var, v) == [NoRes EXCEPT !.kind = "env", !.tag = var, !.val = v]

\* An account name is a string over a small alphabet, as the sequence of its
\* characters.  str.strip() and str.lower() on it:
RECURSIVE Strip(_)
Strip(n) ==
    IF n = <<>> THEN n
    ELSE IF Head(n) = " " THEN Strip(Tail(n))
    ELSE IF n[Len(n)] = " " THEN Strip(SubSeq(n, 1, Len(n) - 1))
    ELSE n

LowerChar(c) == IF c = "W" THEN "w" ELSE IF c = "K" THEN "k" ELSE c
Lower(n) == [i \in 1..Len(n) |-> LowerChar(n[i])]

\* The keywords of a request that creates, updates or imports an account;
\* a keyword the request does not carry is <<>>, "" or None.  For an import,
\* they are the first entry of the list, and rest the names of the entries
\* that follow it.
NoArg == [name |-> <<>>, auth_type |-> "", api_key |-> NoneVal,
          access_token |-> NoneVal, refresh_token |-> NoneVal,
          expires_at |-> NoneVal, rest |-> <<>>]

NoOp == [name |-> "none", acc |-> "acc_x", sid |-> "", arg |-> NoArg]

\* The credentials file when it does not exist.  A file that exists holds
\* a whole JSON document, or a part of one when a writer was cut short.
NoFile == [present |-> FALSE, whole |-> TRUE, accessToken |-> NoTok,
           refreshToken |-> NoTok, expiresAt |-> 0, other |-> 0, mtime |-> 0]

\* ------------------------------------------------------------------------
\* Callers
\* ------------------------------------------------------------------------

OpNames == {"resolve", "refresh", "status", "export"}

FirstPc(name) ==
    CASE name = "resolve" -> "gle_select"
      [] name = "refresh" -> "rf_select"
      [] name = "status" -> "st_select"
      [] name = "export" -> "export"
      [] name = "create" -> "ad_check"
      [] name = "update" -> "ua_select"
      [] name = "import" -> "im_check"
      [] name = "capture" -> "cap_read"

\* Where a thread goes on when the vault call it made returns r (or raises
\* it).  handle_start_terminal forks once get_launch_env has returned and
\* ends on its exception; _watch_credentials emits login_complete once
\* capture_oauth_tokens has returned and takes the new baseline on its
\* exception; a request to the vault is done.
AfterCall(t, r) ==
    CASE op[t].name = "start_terminal" ->
            IF r.kind = "env" THEN "fork" ELSE "done"
      [] op[t].name = "watch" ->
            IF r.kind = "captured" THEN "w_emit" ELSE "w_failed"
      [] OTHER -> "done"

\* A thread's vault call returns r (or raises it).
Return(t, r) ==
    /\ res' = [res EXCEPT ![t] = r]
    /\ pc' = [pc EXCEPT ![t] = AfterCall(t, r)]

Goto(t, p) ==
    /\ pc' = [pc EXCEPT ![t] = p]
    /\ UNCHANGED res

\* A request arrives: its thread starts the call.
Call(t) ==
    /\ pc[t] = "idle"
    /\ \E name \in OpNames, a \in AccArgs :
        /\ name = "export" => a = "acc_x"
        /\ op' = [op EXCEPT ![t] = [name |-> name, acc |-> a, sid |-> "",
                                    arg |-> NoArg]]
        /\ pc' = [pc EXCEPT ![t] = FirstPc(name)]
    /\ ord' = [ord EXCEPT ![t] =
                 [rank |-> 1 + Cardinality({u \in Callers : ord[u].rank > 0}),
                  during |-> {u \in Callers : pc[u] \notin {"idle", "done"}}]]
    /\ UNCHANGED <<keyFile, osEnv, accounts, credFile, now, row, resp, tnow, res,
                   validRt, issued, accepted, resent, exposedOld,
                   relayVars, lateCapture>>

\* time.time() advances.
Tick ==
    /\ now < StartMs + MaxTicks * TickMs
    /\ now' = now + TickMs
    /\ UNCHANGED <<keyFile, osEnv, accounts, credFile, pc, op, ord, row, resp, tnow, res,
                   validRt, issued, accepted, resent, exposedOld,
                   relayVars, lateCapture>>

\* ------------------------------------------------------------------------
\* get_launch_env (resolve_launch_credentials)
\* ------------------------------------------------------------------------

\* The expiry test with the boundary on the expired side.
IsExpiredInclusive(now_ms, expires_at) == now_ms >= expires_at

\* now_ms > row["expires_at"], the expiry test of get_launch_env,
\* get_token_status and _row_to_safe_dict.
IsExpired(now_ms, expires_at) == now_ms > expires_at

\* The SELECT of lines 179-183 without the UPDATE of last_used.
gle_select_no_update(t) ==
    /\ pc[t] = "gle_select"
    /\ LET r == SelectRow(op[t].acc)
       IN  IF r = NoRow
           THEN Return(t, Err("NotFound")) /\ UNCHANGED row
           ELSE row' = [row EXCEPT ![t] = r] /\ Goto(t, "gle_check")
    /\ UNCHANGED <<keyFile, osEnv, accounts, credFile, now, op, ord, resp,
                   tnow, validRt, issued, accepted, resent, exposedOld,
                   relayVars, lateCapture>>

\* Lines 179-187: SELECT the row, then UPDATE last_used.
gle_select(t) ==
    /\ pc[t] = "gle_select"
    /\ LET a == op[t].acc
           r == SelectRow(a)
       IN  IF r = NoRow
           THEN /\ Return(t, Err("NotFound"))
                /\ UNCHANGED <<accounts, row>>
           ELSE /\ row' = [row EXCEPT ![t] = r]
                /\ accounts' = [accounts EXCEPT ![a].last_used = now]
                /\ Goto(t, "gle_check")
    /\ UNCHANGED <<keyFile, osEnv, credFile, now, op, ord, resp, tnow, validRt, issued,
                   accepted, resent, exposedOld,
                   relayVars, lateCapture>>

\* Lines 189-224 up to the call of refresh_oauth_token: the credential of the
\* row read, and for OAuth the expiry test against the clock.  _decrypt lets
\* Fernet's InvalidToken through, which is no ValueError: the callers that
\* catch ValueError (lines 475-480 of server.py, 190-194 of cli.py) do not
\* catch it.
gle_check(t) ==
    /\ pc[t] = "gle_check"
    /\ LET r == row[t]
           api_key == decrypt(r.api_key_enc)
           access_token == decrypt(r.access_token_enc)
       IN  IF r.auth_type = "api_key"
           THEN /\ Return(t, IF api_key = Corrupt THEN Raised("InvalidToken")
                             ELSE IF api_key = NoTok THEN Err("MissingCredential")
                             ELSE Env("ANTHROPIC_API_KEY", api_key))
                /\ UNCHANGED tnow
           ELSE IF access_token = Corrupt
           THEN Return(t, Raised("InvalidToken")) /\ UNCHANGED tnow
           ELSE IF access_token = NoTok
           THEN Return(t, Err("MissingCredential")) /\ UNCHANGED tnow
           ELSE IF r.expires_at > 0
           THEN /\ tnow' = [tnow EXCEPT ![t] = now]
                /\ IF IsExpired(now, r.expires_at)
                   THEN IF r.refresh_token_enc # EmptyCt
                        THEN Goto(t, "rf_select")
                        ELSE Return(t, Err("CredentialExpired"))
                   ELSE Return(t, Env("CLAUDE_CODE_OAUTH_TOKEN", access_token))
           ELSE /\ Return(t, Env("CLAUDE_CODE_OAUTH_TOKEN", access_token))
                /\ UNCHANGED tnow
    /\ UNCHANGED <<keyFile, osEnv, accounts, credFile, now, op, ord, row, resp, validRt,
                   issued, accepted, resent, exposedOld,
                   relayVars, lateCapture>>

\* Lines 207-212: after the refresh, the access token is read again from the
\* table.  fetchone() of a deleted row is None, whose subscript raises; that
\* and InvalidToken are caught by the except of line 213.
gle_reread(t) ==
    /\ pc[t] = "gle_reread"
    /\ LET r == SelectRow(op[t].acc)
           access_token == decrypt(r.access_token_enc)
       IN  Return(t, IF r = NoRow \/ access_token = Corrupt
                     THEN Err("CredentialExpired")
                     ELSE Env("CLAUDE_CODE_OAUTH_TOKEN", access_token))
    /\ UNCHANGED <<keyFile, osEnv, accounts, credFile, now, op, ord, row, resp, tnow,
                   validRt, issued, accepted, resent, exposedOld,
                   relayVars, lateCapture>>

\* ------------------------------------------------------------------------
\* refresh_oauth_token (refresh_account), update_account, and
\* _sync_credentials_file
\* ------------------------------------------------------------------------

\* What the endpoint may put in expires_in (seconds; 0: the key is absent).
ExpiresIns == {0, SecPerMin}

\* The i-th token pair the endpoint issues.
NewAccess(i) == 10 + 2 * i
NewRefresh(i) == 11 + 2 * i

\* get_launch_env without the except of lines 213-217: the exception of
\* refresh_oauth_token reaches the caller as it is.
RefFailUncaught(t, e) == Return(t, Err(e))

\* refresh_oauth_token raises e.  Called from get_launch_env, the except of
\* lines 213-217 turns every exception into "expired and refresh failed".
RefFail(t, e) ==
    Return(t, IF op[t].name \in {"resolve", "start_terminal"}
              THEN Err("CredentialExpired") ELSE Err(e))

\* Lines 317-331: SELECT the row, check it, decrypt the refresh token.
rf_select(t) ==
    /\ pc[t] = "rf_select"
    /\ LET r == SelectRow(op[t].acc)
           refresh_token == decrypt(r.refresh_token_enc)
       IN  IF r = NoRow
           THEN RefFail(t, "NotFound") /\ UNCHANGED resp
           ELSE IF r.auth_type # "oauth"
           THEN RefFail(t, "NotOAuth") /\ UNCHANGED resp
           ELSE IF refresh_token = Corrupt
           THEN RefFail(t, "InvalidToken") /\ UNCHANGED resp
           ELSE IF refresh_token = NoTok
           THEN RefFail(t, "NoRefreshToken") /\ UNCHANGED resp
           ELSE /\ resp' = [resp EXCEPT ![t].sent = refresh_token]
                /\ Goto(t, "rf_post")
    /\ UNCHANGED <<keyFile, osEnv, accounts, credFile, now, op, ord, row, tnow, validRt, issued,
                   accepted, resent, exposedOld,
                   relayVars, lateCapture>>

\* Lines 333-341 with the POST sent once more after a RequestException.
rf_post_retry(t) ==
    /\ pc[t] = "rf_post"
    /\ resent' = (resent \/ resp[t].sent \in accepted)
    /\ \/ /\ resp[t].status # "unreachable"
          /\ Goto(t, "rf_post")
          /\ resp' = [resp EXCEPT ![t].status = "unreachable"]
       \/ /\ RefFail(t, "RefreshRejected")
          /\ resp' = [resp EXCEPT ![t].status = "rejected"]
    /\ UNCHANGED <<keyFile, osEnv, accounts, credFile, now, op, ord, row,
                   tnow, validRt, issued, accepted, exposedOld, relayVars,
                   lateCapture>>

\* Lines 333-355: one POST to the token endpoint and its answer.  The
\* endpoint exchanges a refresh token it holds valid for a new pair, once;
\* it may also be unreachable, refuse, or answer 200 without access_token.
rf_post(t) ==
    /\ pc[t] = "rf_post"
    /\ resent' = (resent \/ resp[t].sent \in accepted)
    /\ \/ /\ RefFail(t, "RefreshUnreachable")
          /\ resp' = [resp EXCEPT ![t].status = "unreachable"]
          /\ UNCHANGED <<validRt, issued, accepted>>
       \/ /\ RefFail(t, "RefreshRejected")
          /\ resp' = [resp EXCEPT ![t].status = "rejected"]
          /\ UNCHANGED <<validRt, issued, accepted>>
       \/ /\ RefFail(t, "NoAccessTokenInResponse")
          /\ resp' = [resp EXCEPT ![t].status = "ok_no_access"]
          /\ UNCHANGED <<validRt, issued, accepted>>
       \/ /\ resp[t].sent \in validRt
          /\ issued < MaxIssued
          /\ \E e \in ExpiresIns :
                resp' = [resp EXCEPT ![t].status = "ok",
                                     ![t].access_token = NewAccess(issued),
                                     ![t].refresh_token = NewRefresh(issued),
                                     ![t].expires_in = e]
          /\ validRt' = (validRt \ {resp[t].sent}) \cup {NewRefresh(issued)}
          /\ issued' = issued + 1
          /\ accepted' = accepted \cup {resp[t].sent}
          /\ Goto(t, "ua_select")
    /\ UNCHANGED <<keyFile, osEnv, accounts, credFile, now, op, ord, row, tnow, exposedOld,
                   relayVars, lateCapture>>

\* Line 357 with expires_in taken for milliseconds.
NewExpiresAtSeconds(now_ms, expires_in) ==
    IF expires_in # 0 THEN now_ms + expires_in ELSE 0

\* Line 357: expires_at = int(time.time() * 1000) + expires_in * 1000, or 0.
NewExpiresAt(now_ms, expires_in) ==
    IF expires_in # 0 THEN now_ms + expires_in * MsPerSec ELSE 0

\* update_account that keeps the refresh token of the row it selected.
UpdatedFieldsKeepRefresh(acc, access_token, refresh_token, expires_at) ==
    [acc EXCEPT !.access_token_enc = encrypt(access_token),
                !.expires_at = expires_at]

\* update_account's fields for the keywords access_token, refresh_token and
\* expires_at: the other columns are those of the row it selected.
UpdatedFields(acc, access_token, refresh_token, expires_at) ==
    [acc EXCEPT !.access_token_enc = encrypt(access_token),
                !.refresh_token_enc = encrypt(refresh_token),
                !.expires_at = expires_at]

\* The expires_at keyword of update_account: refresh_oauth_token computes it
\* from the clock (line 357), capture_oauth_tokens passes the file's.
KwExpiresAt(t) ==
    IF op[t].name \in {"capture", "watch"}
    THEN resp[t].expires_at
    ELSE NewExpiresAt(now, resp[t].expires_in)

\* update_account's fields for the keywords of api_update's request: every
\* keyword the request carries is taken as it is.
KwFields(acc, kw) ==
    [acc EXCEPT
        !.name = IF kw.name # <<>> THEN kw.name ELSE @,
        !.auth_type = IF kw.auth_type # "" THEN kw.auth_type ELSE @,
        !.api_key_enc = IF kw.api_key # NoneVal THEN encrypt(kw.api_key) ELSE @,
        !.access_token_enc =
            IF kw.access_token # NoneVal THEN encrypt(kw.access_token) ELSE @,
        !.refresh_token_enc =
            IF kw.refresh_token # NoneVal THEN encrypt(kw.refresh_token) ELSE @,
        !.expires_at = IF kw.expires_at # NoneVal THEN kw.expires_at ELSE @]

\* An UPDATE accounts SET ... without the WHERE id = ? of line 133.
WriteRowEverywhere(a, f) == [b \in DOMAIN accounts |-> f]

\* Line 133: UPDATE accounts SET ... WHERE id = ?.
WriteRow(a, f) == [accounts EXCEPT ![a] = f]

\* Line 357 and update_account's lines 112-125: the clock is read (by
\* refresh_oauth_token), the row selected, and the fields to write computed.
ua_select(t) ==
    /\ pc[t] = "ua_select"
    /\ LET acc == SelectRow(op[t].acc)
       IN  IF acc = NoRow
           THEN RefFail(t, "NotFound") /\ UNCHANGED resp
           ELSE /\ resp' = [resp EXCEPT
                       ![t].at = IF op[t].name = "update" THEN @ ELSE now,
                       ![t].row =
                           IF op[t].name = "update"
                           THEN KwFields(acc, op[t].arg)
                           ELSE UpdatedFields(acc, resp[t].access_token,
                                    resp[t].refresh_token, KwExpiresAt(t))]
                /\ Goto(t, "ua_update")
    /\ UNCHANGED <<keyFile, osEnv, accounts, credFile, now, op, ord, row, tnow, validRt,
                   issued, accepted, resent, exposedOld, relayVars, lateCapture>>

\* The session whose watcher thread w is, and whether it has ended: its
\* child has exited, or its record is no longer in _terminals.
SessionOf(w) == CHOOSE i \in Pids : WatcherOf(i) = w
Registered(i) == \E s \in DOMAIN terminals : terminals[s].pid = i
Ended(i) == child[i] # "running" \/ ~Registered(i)

\* capture_oauth_tokens's lines 294-303: what it returns.
Captured(t) ==
    [NoRes EXCEPT !.kind = "captured",
                  !.val = resp[t].access_token,
                  !.has_refresh = resp[t].refresh_token # NoTok,
                  !.rem = IF resp[t].expires_at > 0
                          THEN TruncDiv(resp[t].expires_at - now, MsPerMin)
                          ELSE NoneVal]

\* update_account's lines 127-136: UPDATE ... WHERE id=?, which writes six
\* columns (not last_used) and nothing when the row is gone; sqlite raises
\* IntegrityError when another row has the name (name TEXT UNIQUE, line 69).
\* Then refresh_oauth_token goes on to _sync_credentials_file, and
\* capture_oauth_tokens and api_update return.
ua_update(t) ==
    /\ pc[t] = "ua_update"
    /\ LET a == op[t].acc
           f == resp[t].row
       IN  IF /\ a \in DOMAIN accounts
              /\ \E b \in DOMAIN accounts \ {a} : accounts[b].name = f.name
           THEN /\ UNCHANGED accounts
                /\ Return(t, Raised("IntegrityError"))
           ELSE /\ accounts' =
                     IF a \in DOMAIN accounts
                     THEN WriteRow(a, [f EXCEPT
                                         !.last_used = accounts[a].last_used])
                     ELSE accounts
                /\ IF op[t].name \in {"capture", "watch"}
                   THEN Return(t, Captured(t))
                   ELSE IF op[t].name = "update"
                   THEN Return(t, [NoRes EXCEPT !.kind = "updated"])
                   ELSE Goto(t, "sync_select")
    /\ lateCapture' = (lateCapture \/ (t \in Watchers /\ Ended(SessionOf(t))))
    /\ UNCHANGED <<keyFile, osEnv, credFile, now, op, ord, row, resp, tnow, validRt,
                   issued, accepted, resent, exposedOld, relayVars>>

\* refresh_oauth_token's lines 368-373, or get_launch_env's re-read, once
\* _sync_credentials_file has returned.
AfterSync(t) ==
    IF op[t].name \in {"resolve", "start_terminal"}
    THEN Goto(t, "gle_reread")
    ELSE Return(t, [NoRes EXCEPT
             !.kind = "refreshed",
             !.val = resp[t].access_token,
             !.rem = IF resp[t].expires_in # 0
                     THEN TruncDiv(resp[t].expires_in, SecPerMin)
                     ELSE NoneVal])

\* _sync_credentials_file's lines 382-390: SELECT the row, decrypt its tokens.
sync_select(t) ==
    /\ pc[t] = "sync_select"
    /\ LET r == SelectRow(op[t].acc)
       IN  IF r = NoRow \/ r.auth_type # "oauth"
           THEN AfterSync(t) /\ UNCHANGED resp
           ELSE IF Corrupt \in {decrypt(r.access_token_enc),
                                decrypt(r.refresh_token_enc)}
           THEN RefFail(t, "InvalidToken") /\ UNCHANGED resp
           ELSE /\ resp' = [resp EXCEPT ![t].row = r]
                /\ Goto(t, "sync_read")
    /\ UNCHANGED <<keyFile, osEnv, accounts, credFile, now, op, ord, row, tnow, validRt,
                   issued, accepted, resent, exposedOld,
                   relayVars, lateCapture>>

\* Lines 392-399 without the read: the document starts from {}.
sync_read_nothing(t) ==
    /\ pc[t] = "sync_read"
    /\ resp' = [resp EXCEPT ![t].other = 0]
    /\ Goto(t, "sync_mkstemp")
    /\ UNCHANGED <<keyFile, osEnv, accounts, credFile, now, op, ord, row, tnow, validRt,
                   issued, accepted, resent, exposedOld,
                   relayVars, lateCapture>>

\* Lines 392-399: the file's document is read, {} when there is no file.
sync_read(t) ==
    /\ pc[t] = "sync_read"
    /\ resp' = [resp EXCEPT ![t].other =
                    IF credFile.present THEN credFile.other ELSE 0]
    /\ Goto(t, "sync_mkstemp")
    /\ UNCHANGED <<keyFile, osEnv, accounts, credFile, now, op, ord, row, tnow, validRt,
                   issued, accepted, resent, exposedOld,
                   relayVars, lateCapture>>

\* Line 408 as open(cred_path, "w"): the credentials file itself is opened
\* for writing, which truncates it.
sync_open_target(t) ==
    /\ pc[t] = "sync_mkstemp"
    /\ credFile' = [NoFile EXCEPT !.present = TRUE, !.whole = FALSE,
                                  !.mtime = now]
    /\ resp' = [resp EXCEPT ![t].tmp = "empty"]
    /\ Goto(t, "sync_dump")
    /\ UNCHANGED <<keyFile, osEnv, accounts, now, op, ord, row, tnow, validRt,
                   issued, accepted, resent, exposedOld,
                   relayVars, lateCapture>>

\* Lines 406-408: tempfile.mkstemp(dir=cred_dir) makes an empty temporary
\* file next to the credentials file.
sync_mkstemp(t) ==
    /\ pc[t] = "sync_mkstemp"
    /\ resp' = [resp EXCEPT ![t].tmp = "empty"]
    /\ Goto(t, "sync_dump")
    /\ UNCHANGED <<keyFile, osEnv, accounts, credFile, now, op, ord, row, tnow,
                   validRt, issued, accepted, resent, exposedOld,
                   relayVars, lateCapture>>

\* Lines 410-411: json.dump writes the document to the temporary file,
\* which is closed.
sync_dump(t) ==
    /\ pc[t] = "sync_dump"
    /\ resp' = [resp EXCEPT ![t].tmp = "full"]
    /\ Goto(t, "sync_replace")
    /\ UNCHANGED <<keyFile, osEnv, accounts, credFile, now, op, ord, row, tnow,
                   validRt, issued, accepted, resent, exposedOld,
                   relayVars, lateCapture>>

\* Lines 412-413: os.replace renames the temporary file, which holds the
\* document with the row's tokens under claudeAiOauth, over the credentials
\* file; os.chmod keeps it owner-only.
sync_replace(t) ==
    /\ pc[t] = "sync_replace"
    /\ credFile' = [present |-> TRUE,
                    whole |-> resp[t].tmp = "full",
                    accessToken |-> decrypt(resp[t].row.access_token_enc),
                    refreshToken |-> decrypt(resp[t].row.refresh_token_enc),
                    expiresAt |-> resp[t].row.expires_at,
                    other |-> resp[t].other,
                    mtime |-> now]
    /\ resp' = [resp EXCEPT ![t].tmp = "none"]
    /\ AfterSync(t)
    /\ UNCHANGED <<keyFile, osEnv, accounts, now, op, ord, row, tnow, validRt,
                   issued, accepted, resent, exposedOld,
                   relayVars, lateCapture>>

\* Lines 406-418: mkstemp, json.dump or os.replace raises (a directory that
\* cannot be written, a full disk); the except unlinks the temporary file
\* and raises again, and refresh_oauth_token lets the exception through.
sync_fail(t) ==
    /\ pc[t] \in {"sync_mkstemp", "sync_dump", "sync_replace"}
    /\ resp' = [resp EXCEPT ![t].tmp = "none"]
    /\ RefFail(t, "OSError")
    /\ UNCHANGED <<keyFile, osEnv, accounts, credFile, now, op, ord, row,
                   tnow, validRt, issued, accepted, resent, exposedOld,
                   relayVars, lateCapture>>

\* The process of the request t is killed between two steps of the
\* write-back: the request ends there, and its temporary file stays.
Crash(t) ==
    /\ pc[t] \in {"sync_mkstemp", "sync_dump", "sync_replace"}
    /\ pc' = [pc EXCEPT ![t] = "done"]
    /\ res' = [res EXCEPT ![t] = Raised("Killed")]
    /\ UNCHANGED <<keyFile, osEnv, accounts, credFile, now, op, ord, row, resp,
                   tnow, validRt, issued, accepted, resent, exposedOld,
                   relayVars, lateCapture>>

\* ------------------------------------------------------------------------
\* get_token_status (token_status) and export_all
\* ------------------------------------------------------------------------

Status(st) == [NoRes EXCEPT !.kind = "status", !.tag = st]

\* The SELECT of get_token_status followed by the UPDATE of last_used that
\* get_launch_env has.
st_select_update(t) ==
    /\ pc[t] = "st_select"
    /\ LET a == op[t].acc
           r == SelectRow(a)
       IN  IF r = NoRow
           THEN Return(t, Status("not_found")) /\ UNCHANGED <<row, accounts>>
           ELSE /\ row' = [row EXCEPT ![t] = r]
                /\ accounts' = [accounts EXCEPT ![a].last_used = now]
                /\ Goto(t, "st_eval")
    /\ UNCHANGED <<keyFile, osEnv, credFile, now, op, ord, resp, tnow,
                   validRt, issued, accepted, resent, exposedOld,
                   relayVars, lateCapture>>

\* Lines 228-235: SELECT the row; not_found, or an API key's status.
st_select(t) ==
    /\ pc[t] = "st_select"
    /\ LET r == SelectRow(op[t].acc)
       IN  IF r = NoRow
           THEN Return(t, Status("not_found")) /\ UNCHANGED row
           ELSE IF r.auth_type = "api_key"
           THEN /\ Return(t, Status(IF r.api_key_enc # EmptyCt
                                    THEN "ok" ELSE "missing"))
                /\ row' = [row EXCEPT ![t] = r]
           ELSE /\ row' = [row EXCEPT ![t] = r]
                /\ Goto(t, "st_eval")
    /\ UNCHANGED <<keyFile, osEnv, accounts, credFile, now, op, ord, resp, tnow, validRt,
                   issued, accepted, resent, exposedOld,
                   relayVars, lateCapture>>

\* Lines 237-247: the OAuth status of the row read, against the clock.
TokenStatus(r, now_ms) ==
    LET has_token == r.access_token_enc # EmptyCt
        has_refresh == r.refresh_token_enc # EmptyCt
    IN  IF ~has_token THEN Status("needs_login")
        ELSE IF r.expires_at > 0 /\ IsExpired(now_ms, r.expires_at)
        THEN [Status("expired") EXCEPT !.has_refresh = has_refresh]
        ELSE [Status("ok") EXCEPT
                !.has_refresh = has_refresh,
                !.rem = IF r.expires_at > 0
                        THEN TruncDiv(r.expires_at - now_ms, MsPerMin)
                        ELSE NoneVal]

st_eval(t) ==
    /\ pc[t] = "st_eval"
    /\ tnow' = [tnow EXCEPT ![t] = now]
    /\ Return(t, TokenStatus(row[t], now))
    /\ UNCHANGED <<keyFile, osEnv, accounts, credFile, now, op, ord, row, resp, validRt,
                   issued, accepted, resent, exposedOld,
                   relayVars, lateCapture>>

\* The refresh tokens export_all returns: those of the OAuth rows, decrypted.
ExportedRefreshTokens ==
    {decrypt(accounts[a].refresh_token_enc) :
        a \in {x \in DOMAIN accounts : accounts[x].auth_type # "api_key"}}

\* The secrets export_all decrypts: one InvalidToken fails the whole call.
ExportedSecrets ==
    {decrypt(accounts[a].api_key_enc) :
        a \in {x \in DOMAIN accounts : accounts[x].auth_type = "api_key"}}
    \cup {decrypt(accounts[a].access_token_enc) :
        a \in {x \in DOMAIN accounts : accounts[x].auth_type # "api_key"}}
    \cup ExportedRefreshTokens

\* export_all: one SELECT of all rows, each decrypted into the result.
export_all(t) ==
    /\ pc[t] = "export"
    /\ IF Corrupt \in ExportedSecrets
       THEN Return(t, Err("InvalidToken")) /\ UNCHANGED exposedOld
       ELSE /\ Return(t, [NoRes EXCEPT !.kind = "export",
                                       !.rts = ExportedRefreshTokens \ {NoTok}])
            /\ exposedOld' = (exposedOld \/ ExportedRefreshTokens \cap accepted # {})
    /\ UNCHANGED <<keyFile, osEnv, accounts, credFile, now, op, ord, row, resp, tnow,
                   validRt, issued, accepted, resent,
                   relayVars, lateCapture>>

\* ------------------------------------------------------------------------
\* The terminal relay: _cleanup_terminal
\* ------------------------------------------------------------------------
\* api_add (cmd_add), import_accounts, add_account
\* ------------------------------------------------------------------------

\* api_add's line 155: d.get("name", "").strip().lower().replace(" ", "-").
NormalName(raw) ==
    LET n == Lower(Strip(raw))
    IN  [i \in 1..Len(n) |-> IF n[i] = " " THEN "-" ELSE n[i]]

\* get_account_by_name(name) is not None: SELECT ... WHERE name = ?.
NameTaken(name) == \E a \in DOMAIN accounts : accounts[a].name = name

\* A keyword's value, or the default of d.get(key, default).
KwOr(v, default) == IF v = NoneVal THEN default ELSE v

\* The entry import_accounts's loop is at.
Entry(t) ==
    IF resp[t].idx = 0 THEN op[t].arg
    ELSE [NoArg EXCEPT !.name = op[t].arg.rest[resp[t].idx]]

\* The id of the row a request inserts: acc_ and random hex digits.
NewId(t) ==
    IF resp[t].idx = 0
    THEN (IF t = 1 THEN "acc_1" ELSE "acc_2")
    ELSE (IF t = 1 THEN "acc_1b" ELSE "acc_2b")

\* The row add_account inserts: api_add passes the API key only, or the
\* tokens only (lines 164-178); import_accounts passes every field of the
\* entry (lines 447-455).
InsertedRow(t) ==
    LET kw == Entry(t)
    IN  IF op[t].name = "import"
        THEN [name |-> Strip(kw.name),
              auth_type |-> IF kw.auth_type = "" THEN "api_key"
                            ELSE kw.auth_type,
              api_key_enc |-> encrypt(KwOr(kw.api_key, NoTok)),
              access_token_enc |-> encrypt(KwOr(kw.access_token, NoTok)),
              refresh_token_enc |-> encrypt(KwOr(kw.refresh_token, NoTok)),
              expires_at |-> KwOr(kw.expires_at, 0),
              last_used |-> NoneVal]
        ELSE IF kw.auth_type = "api_key"
        THEN [name |-> NormalName(kw.name), auth_type |-> "api_key",
              api_key_enc |-> encrypt(kw.api_key),
              access_token_enc |-> EmptyCt, refresh_token_enc |-> EmptyCt,
              expires_at |-> 0, last_used |-> NoneVal]
        ELSE [name |-> NormalName(kw.name), auth_type |-> "oauth",
              api_key_enc |-> EmptyCt,
              access_token_enc |-> encrypt(KwOr(kw.access_token, NoTok)),
              refresh_token_enc |-> encrypt(KwOr(kw.refresh_token, NoTok)),
              expires_at |-> KwOr(kw.expires_at, 0),
              last_used |-> NoneVal]

\* add_account evaluates _encrypt for each secret before its INSERT, and
\* _encrypt calls _get_cipher for a secret that is not empty (lines 43-46):
\* where a request goes on before it inserts its row.
BeforeInsert(t) ==
    IF \A f \in {"api_key_enc", "access_token_enc", "refresh_token_enc"} :
          InsertedRow(t)[f] = EmptyCt
    THEN "add_account" ELSE "gc_exists"

\* _get_cipher's lines 34-35: KEY_PATH.exists(), and the key read.
gc_exists(t) ==
    /\ pc[t] = "gc_exists"
    /\ resp' = [resp EXCEPT ![t].key = keyFile]
    /\ Goto(t, IF keyFile # 0 THEN "add_account" ELSE "gc_write")
    /\ UNCHANGED <<keyFile, osEnv, accounts, credFile, now, op, ord, row,
                   tnow, validRt, issued, accepted, resent, exposedOld,
                   relayVars, lateCapture>>

\* _get_cipher's lines 37-39: a key is generated and written to the key
\* file, whatever the file holds by now; the cipher has the key generated.
gc_write(t) ==
    /\ pc[t] = "gc_write"
    /\ keyFile' = t + 1
    /\ resp' = [resp EXCEPT ![t].key = t + 1]
    /\ Goto(t, "add_account")
    /\ UNCHANGED <<osEnv, accounts, credFile, now, op, ord, row,
                   tnow, validRt, issued, accepted, resent, exposedOld,
                   relayVars, lateCapture>>

\* api_add's lines 155-162: the name is normalized; 400 for a name shorter
\* than two characters, 409 for a name the table has.
\* (Lines 166-169: 400 when an API key account comes without a key.)
ad_check(t) ==
    /\ pc[t] = "ad_check"
    /\ LET name == NormalName(op[t].arg.name)
       IN  IF Len(name) < 2
           THEN Return(t, Err("InvalidName"))
           ELSE IF NameTaken(name)
           THEN Return(t, Err("DuplicateName"))
           ELSE IF /\ op[t].arg.auth_type = "api_key"
                   /\ KwOr(op[t].arg.api_key, NoTok) = NoTok
           THEN Return(t, Err("InvalidRequest"))
           ELSE Goto(t, BeforeInsert(t))
    /\ UNCHANGED <<keyFile, osEnv, accounts, credFile, now, op, ord, row, resp,
                   tnow, validRt, issued, accepted, resent, exposedOld,
                   relayVars, lateCapture>>

\* import_accounts's loop goes on to the next entry with the count n, or
\* returns n after the last one (lines 442, 456-457).
ImportNext(t, n) ==
    IF resp[t].idx < Len(op[t].arg.rest)
    THEN /\ resp' = [resp EXCEPT ![t].idx = @ + 1, ![t].count = n]
         /\ Goto(t, "im_check")
    ELSE /\ resp' = [resp EXCEPT ![t].count = n]
         /\ Return(t, [NoRes EXCEPT !.kind = "imported", !.val = n])

\* Lines 443-445 with the lookup left out: every named entry is inserted.
im_check_no_lookup(t) ==
    /\ pc[t] = "im_check"
    /\ IF Strip(Entry(t).name) = <<>>
       THEN ImportNext(t, resp[t].count)
       ELSE Goto(t, BeforeInsert(t)) /\ UNCHANGED resp
    /\ UNCHANGED <<keyFile, osEnv, accounts, credFile, now, op, ord, row,
                   tnow, validRt, issued, accepted, resent, exposedOld,
                   relayVars, lateCapture>>

\* import_accounts's lines 443-445: the entry's name is stripped; the entry
\* is skipped when the name is empty or the table has it.
im_check(t) ==
    /\ pc[t] = "im_check"
    /\ LET name == Strip(Entry(t).name)
       IN  IF name = <<>> \/ NameTaken(name)
           THEN ImportNext(t, resp[t].count)
           ELSE Goto(t, BeforeInsert(t)) /\ UNCHANGED resp
    /\ UNCHANGED <<keyFile, osEnv, accounts, credFile, now, op, ord, row,
                   tnow, validRt, issued, accepted, resent, exposedOld,
                   relayVars, lateCapture>>

\* add_account's lines 94-108: INSERT INTO accounts; sqlite raises
\* IntegrityError when a row has the name (name TEXT UNIQUE, line 69), which
\* neither api_add nor import_accounts catches.  import_accounts counts the
\* row and goes on with its list.
add_account(t) ==
    /\ pc[t] = "add_account"
    /\ LET key == resp[t].key
           r0 == InsertedRow(t)
           r == IF key = 0 THEN r0
                ELSE [r0 EXCEPT
                        !.api_key_enc =
                            IF @ = EmptyCt THEN @ ELSE [@ EXCEPT !.k = key],
                        !.access_token_enc =
                            IF @ = EmptyCt THEN @ ELSE [@ EXCEPT !.k = key],
                        !.refresh_token_enc =
                            IF @ = EmptyCt THEN @ ELSE [@ EXCEPT !.k = key]]
       IN  IF NameTaken(r.name)
           THEN /\ UNCHANGED <<accounts, resp>>
                /\ Return(t, Raised("IntegrityError"))
           ELSE /\ accounts' = [a \in DOMAIN accounts \cup {NewId(t)} |->
                                   IF a = NewId(t) THEN r ELSE accounts[a]]
                /\ IF op[t].name = "import"
                   THEN ImportNext(t, resp[t].count + 1)
                   ELSE /\ Return(t, [NoRes EXCEPT !.kind = "created",
                                                   !.val = 1])
                        /\ UNCHANGED resp
    /\ UNCHANGED <<keyFile, osEnv, credFile, now, op, ord, row, tnow, validRt,
                   issued, accepted, resent, exposedOld, relayVars, lateCapture>>

\* ------------------------------------------------------------------------

\* The session keys (socket ids) and the descriptor numbers a pty may get.
Sids == {"s1"}
FdNums == {1, 2}

NoTerm == [fd |-> 0, pid |-> 0, login |-> "", mtime |-> 0]
\* The variables of os.environ the model follows: the two identity variables
\* (0: not set) and PATH (1: it has a claude executable, 0: it has none).
EnvVars == {"ANTHROPIC_API_KEY", "CLAUDE_CODE_OAUTH_TOKEN", "PATH"}
NoEnv == [v \in EnvVars |-> 0]
PlainEnv == [NoEnv EXCEPT !["PATH"] = 1]

\* The window size a pty has before any TIOCSWINSZ.
NoWinsize == <<0, 0>>
NoSess == [sid |-> "", fd |-> 0, login |-> "", acc |-> "", env |-> NoEnv,
           winsize |-> NoWinsize]
NoLoop == [pc |-> "none", why |-> ""]
NoWat == [mtime_ref |-> 0, cur |-> 0]

\* The variables of the vault no relay step writes, and a thread's locals.
vaultData == <<keyFile, osEnv, accounts, credFile, now, validRt, issued, accepted,
               resent, exposedOld>>
callLocals == <<op, ord, row, resp, tnow, res>>

HandlerOps == {"start_terminal", "start_login", "terminal_input",
               "resize_terminal", "stop_terminal", "disconnect"}

\* A socket event arrives for a session key: its handler thread starts,
\* the threads being numbered in the order of their events.  Every handler
\* but terminal_input begins with _cleanup_terminal(sid).
HCall(h) ==
    /\ pc[h] = "idle"
    /\ \A g \in Handlers : g < h => pc[g] # "idle"
    /\ \E name \in HandlerOps, s \in Sids, a \in AccArgs :
        /\ name \notin {"start_terminal", "start_login"} => a = "acc_x"
        /\ op' = [op EXCEPT ![h] = [name |-> name, acc |-> a, sid |-> s,
                                    arg |-> NoArg]]
        /\ pc' = [pc EXCEPT ![h] =
                    CASE name = "terminal_input" -> "in_get"
                      [] name = "resize_terminal" -> "resize"
                      [] OTHER -> "cl_pop"]
    /\ UNCHANGED <<vaultData, ord, row, resp, tnow, res, relayVars, lateCapture>>

\* Where a handler goes on when _cleanup_terminal returns.
AfterCleanup(h) ==
    CASE op[h].name = "start_terminal" -> "gle_select"
      [] op[h].name = "start_login" -> "lg_account"
      [] OTHER -> "done"

\* Line 441 with _terminals.get(sid) in place of pop: the record stays.
cl_get(h) ==
    /\ pc[h] = "cl_pop"
    /\ LET s == op[h].sid
       IN  IF s \in DOMAIN terminals
           THEN /\ hterm' = [hterm EXCEPT ![h] =
                        [fd |-> terminals[s].fd, pid |-> terminals[s].pid,
                         login |-> terminals[s].login, mtime |-> 0]]
                /\ pc' = [pc EXCEPT ![h] = "cl_close"]
           ELSE /\ pc' = [pc EXCEPT ![h] = AfterCleanup(h)]
                /\ UNCHANGED hterm
    /\ UNCHANGED <<vaultData, callLocals, terminals, nforks, fdOpen, child,
                   sess, loop, wat, ptyBuf, produced, delivered, ptyIn, closes,
                   termSig, lateCapture>>

\* Line 441: term = _terminals.pop(sid, None), one dict operation; lines
\* 442-443 return when there was no record.
cl_pop(h) ==
    /\ pc[h] = "cl_pop"
    /\ LET s == op[h].sid
       IN  IF s \in DOMAIN terminals
           THEN /\ hterm' = [hterm EXCEPT ![h] =
                        [fd |-> terminals[s].fd, pid |-> terminals[s].pid,
                         login |-> terminals[s].login, mtime |-> 0]]
                /\ terminals' = [k \in DOMAIN terminals \ {s} |-> terminals[k]]
                /\ pc' = [pc EXCEPT ![h] = "cl_close"]
           ELSE /\ pc' = [pc EXCEPT ![h] = AfterCleanup(h)]
                /\ UNCHANGED <<hterm, terminals>>
    /\ UNCHANGED <<vaultData, callLocals, nforks, fdOpen, child, sess, loop,
                   wat, ptyBuf, produced, delivered, ptyIn, closes, termSig,
                   lateCapture>>

\* Lines 444-447: os.close(term["fd"]), its OSError ignored.  The call
\* counts for the session of the record, and for the session whose pty is
\* behind the descriptor number if that is another one.
cl_close(h) ==
    /\ pc[h] = "cl_close"
    /\ fdOpen' = [fdOpen EXCEPT ![hterm[h].fd] = 0]
    /\ closes' = [i \in Pids |->
                    IF i = hterm[h].pid \/ i = fdOpen[hterm[h].fd]
                    THEN closes[i] + 1 ELSE closes[i]]
    /\ pc' = [pc EXCEPT ![h] = "cl_kill"]
    /\ UNCHANGED <<vaultData, callLocals, terminals, hterm, nforks, child,
                   sess, loop, wat, ptyBuf, produced, delivered, ptyIn,
                   termSig, lateCapture>>

\* Lines 448-451: os.kill(term["pid"], SIGTERM), its OSError ignored.  The
\* child exits later, if at all (the ChildExit step).
cl_kill(h) ==
    /\ pc[h] = "cl_kill"
    /\ termSig' = [termSig EXCEPT ![hterm[h].pid] = @ + 1]
    /\ pc' = [pc EXCEPT ![h] = "cl_wait"]
    /\ UNCHANGED <<vaultData, callLocals, terminals, hterm, nforks, fdOpen,
                   child, sess, loop, wat, ptyBuf, produced, delivered, ptyIn,
                   closes, lateCapture>>

\* Lines 452-455: os.waitpid(term["pid"], os.WNOHANG) reaps the child when it
\* has exited already, and returns at once when it has not.  The local term
\* ends with the call.
cl_wait(h) ==
    /\ pc[h] = "cl_wait"
    /\ child' = [child EXCEPT ![hterm[h].pid] =
                    IF @ = "zombie" THEN "reaped" ELSE @]
    /\ hterm' = [hterm EXCEPT ![h] = NoTerm]
    /\ pc' = [pc EXCEPT ![h] = AfterCleanup(h)]
    /\ UNCHANGED <<vaultData, callLocals, terminals, nforks, fdOpen,
                   sess, loop, wat, ptyBuf, produced, delivered, ptyIn,
                   closes, termSig, lateCapture>>

\* ------------------------------------------------------------------------
\* handle_start_terminal, handle_start_login, handle_terminal_input
\* ------------------------------------------------------------------------

\* handle_start_login's lines 540-559: db.get_account, terminal_error when
\* there is no such account, else the credentials file's mtime (0: no file).
lg_account(h) ==
    /\ pc[h] = "lg_account"
    /\ IF SelectRow(op[h].acc) = NoRow
       THEN /\ res' = [res EXCEPT ![h] = Err("NotFound")]
            /\ pc' = [pc EXCEPT ![h] = "done"]
            /\ UNCHANGED hterm
       ELSE /\ hterm' = [hterm EXCEPT ![h] =
                    [NoTerm EXCEPT !.login = op[h].acc,
                                   !.mtime = IF credFile.present
                                             THEN credFile.mtime ELSE 0]]
            /\ pc' = [pc EXCEPT ![h] = "fork"]
            /\ UNCHANGED res
    /\ UNCHANGED <<vaultData, op, ord, row, resp, tnow, terminals, nforks,
                   fdOpen, child, sess, loop, wat, ptyBuf, produced, delivered,
                   ptyIn, closes, termSig, lateCapture>>

\* Lines 482-487 without the two pops: the caller's other identity variable
\* stays in the child's environment.
LaunchEnvNoPop(environ, env_vars) ==
    [v \in EnvVars |-> IF v = env_vars.tag THEN env_vars.val ELSE environ[v]]

\* handle_start_terminal's lines 482-487 (cmd_launch's 195-203): the copy of
\* os.environ, updated with the variable resolved, the other identity
\* variable popped.
LaunchEnv(environ, env_vars) ==
    LET env == [v \in EnvVars |->
                   IF v = env_vars.tag THEN env_vars.val ELSE environ[v]]
    IN  [v \in EnvVars |->
            IF \/ env_vars.tag = "ANTHROPIC_API_KEY"
                  /\ v = "CLAUDE_CODE_OAUTH_TOKEN"
               \/ env_vars.tag = "CLAUDE_CODE_OAUTH_TOKEN"
                  /\ v = "ANTHROPIC_API_KEY"
            THEN 0 ELSE env[v]]

\* handle_start_login's lines 548-551: both identity variables popped.
LoginEnv(environ) ==
    [v \in EnvVars |-> IF v = "PATH" THEN environ[v] ELSE 0]

\* terminal_started was emitted to the caller.
Started == [NoRes EXCEPT !.kind = "started"]

\* Lines 495 and 561: pid, fd = pty.fork().  The child gets the next pid and
\* the pty's master a descriptor number that is free in the process; it
\* runs os.execvpe("claude", ..., env), which raises in the child when PATH
\* has no claude, while the parent goes on.
fork(h) ==
    /\ pc[h] = "fork"
    /\ nforks < MaxSessions
    /\ sess' = [sess EXCEPT ![nforks + 1].acc = op[h].acc,
                            ![nforks + 1].env =
                                IF op[h].name = "start_login"
                                THEN LoginEnv(osEnv)
                                ELSE LaunchEnv(osEnv, res[h])]
    /\ \E fd \in {n \in FdNums : fdOpen[n] = 0} :
        /\ fdOpen' = [fdOpen EXCEPT ![fd] = nforks + 1]
        /\ hterm' = [hterm EXCEPT ![h].fd = fd, ![h].pid = nforks + 1]
    /\ nforks' = nforks + 1
    /\ child' = [child EXCEPT ![nforks + 1] = "running"]
    /\ row' = [row EXCEPT ![h] = NoRow]
    /\ res' = [res EXCEPT ![h] = NoRes]
    /\ pc' = [pc EXCEPT ![h] = "register"]
    /\ UNCHANGED <<vaultData, op, ord, resp, tnow, terminals, loop, wat,
                   ptyBuf, produced, delivered, ptyIn, closes, termSig,
                   lateCapture>>

\* pty.fork() raises OSError when the system has no process left to give,
\* here once MaxSessions children were forked: no handler catches it, so
\* the event ends with nothing emitted.
fork_fail(h) ==
    /\ pc[h] = "fork"
    /\ nforks = MaxSessions
    /\ res' = [res EXCEPT ![h] = Raised("OSError")]
    /\ row' = [row EXCEPT ![h] = NoRow]
    /\ hterm' = [hterm EXCEPT ![h] = NoTerm]
    /\ pc' = [pc EXCEPT ![h] = "done"]
    /\ UNCHANGED <<vaultData, op, ord, resp, tnow, terminals, nforks, fdOpen,
                   child, sess, loop, wat, ptyBuf, produced, delivered, ptyIn,
                   closes, termSig, lateCapture>>

\* Lines 502-524 and 567-615: _terminals[sid] = {...}, terminal_started, and
\* the session's threads started: _read_loop, and for a login session
\* _watch_credentials with mtime_ref = initial_mtime.
register(h) ==
    /\ pc[h] = "register"
    /\ LET s == op[h].sid
           i == hterm[h].pid
           term == [fd |-> hterm[h].fd, pid |-> i,
                    login |-> IF op[h].name = "start_login"
                              THEN op[h].acc ELSE ""]
       IN  /\ terminals' = [k \in DOMAIN terminals \cup {s} |->
                               IF k = s THEN term ELSE terminals[k]]
           /\ sess' = [sess EXCEPT ![i].sid = s, ![i].fd = term.fd,
                                   ![i].login = term.login]
           /\ loop' = [loop EXCEPT ![i].pc = "check"]
           /\ IF op[h].name = "start_login"
              THEN /\ wat' = [wat EXCEPT ![i].mtime_ref = hterm[h].mtime]
                   /\ pc' = [pc EXCEPT ![h] = "done",
                                       ![WatcherOf(i)] = "w_check"]
                   /\ op' = [op EXCEPT ![WatcherOf(i)] =
                                [name |-> "watch", acc |-> term.login, sid |-> s,
                                    arg |-> NoArg]]
              ELSE /\ pc' = [pc EXCEPT ![h] = "done"]
                   /\ UNCHANGED <<wat, op>>
    /\ hterm' = [hterm EXCEPT ![h] = NoTerm]
    /\ res' = [res EXCEPT ![h] = Started]
    /\ UNCHANGED <<vaultData, ord, row, resp, tnow, nforks, fdOpen,
                   child, ptyBuf, produced, delivered, ptyIn, closes, termSig,
                   lateCapture>>

\* handle_terminal_input's line 621: term = _terminals.get(sid).
in_get(h) ==
    /\ pc[h] = "in_get"
    /\ LET s == op[h].sid
       IN  IF s \in DOMAIN terminals
           THEN /\ hterm' = [hterm EXCEPT ![h] =
                        [fd |-> terminals[s].fd, pid |-> terminals[s].pid,
                         login |-> terminals[s].login, mtime |-> 0]]
                /\ pc' = [pc EXCEPT ![h] = "in_write"]
           ELSE /\ pc' = [pc EXCEPT ![h] = "done"]
                /\ UNCHANGED hterm
    /\ UNCHANGED <<vaultData, callLocals, terminals, nforks, fdOpen, child,
                   sess, loop, wat, ptyBuf, produced, delivered, ptyIn, closes,
                   termSig, lateCapture>>

\* Lines 623-626: os.write(term["fd"], ...) reaches the pty that is behind
\* the descriptor number now; its OSError is ignored.
in_write(h) ==
    /\ pc[h] = "in_write"
    /\ LET q == fdOpen[hterm[h].fd]
       IN  ptyIn' = IF q # 0 THEN [ptyIn EXCEPT ![q] = @ + 1] ELSE ptyIn
    /\ hterm' = [hterm EXCEPT ![h] = NoTerm]
    /\ pc' = [pc EXCEPT ![h] = "done"]
    /\ UNCHANGED <<vaultData, callLocals, terminals, nforks, fdOpen,
                   child, sess, loop, wat, ptyBuf, produced, delivered, closes,
                   termSig, lateCapture>>

\* The largest value of an unsigned short, the "H" of struct.pack.
UShortMax == 65535

\* The rows and cols a resize_terminal event may carry: a number, a string
\* that is no number, or null.
Dims ==
    {[type |-> "int", v |-> n] : n \in {-1, 24, UShortMax, UShortMax + 1}}
    \cup {[type |-> "str", v |-> 0], [type |-> "null", v |-> 0]}

\* int(x) of lines 634-635: the number, ValueError for a string that is no
\* number, TypeError for None.
PyInt(d) ==
    CASE d.type = "int" -> [exc |-> "", v |-> d.v]
      [] d.type = "str" -> [exc |-> "ValueError", v |-> 0]
      [] OTHER -> [exc |-> "TypeError", v |-> 0]

\* struct.pack("HHHH", rows, cols, 0, 0) of line 636: struct.error for a
\* number that is no unsigned short.
Pack(rows, cols) ==
    IF \A n \in {rows, cols} : 0 <= n /\ n <= UShortMax
    THEN [exc |-> "", v |-> <<rows, cols>>]
    ELSE [exc |-> "struct.error", v |-> NoWinsize]

\* The window size handle_resize computes from the event's data, or the
\* exception raised on the way (lines 634-636).
Winsize(rows, cols) ==
    LET r == PyInt(rows)
        c == PyInt(cols)
    IN  IF r.exc # "" THEN [exc |-> r.exc, v |-> NoWinsize]
        ELSE IF c.exc # "" THEN [exc |-> c.exc, v |-> NoWinsize]
        ELSE Pack(r.v, c.v)

\* handle_resize (lines 629-640): nothing without a record; the ioctl sets
\* the window size of the pty behind the descriptor; OSError, IOError and
\* ValueError are passed over, any other exception leaves the handler.
handle_resize(h) ==
    /\ pc[h] = "resize"
    /\ LET s == op[h].sid
       IN  IF s \notin DOMAIN terminals
           THEN UNCHANGED <<sess, res>>
           ELSE \E rows, cols \in Dims :
                  LET w == Winsize(rows, cols)
                      q == fdOpen[terminals[s].fd]
                  IN  IF w.exc = "" /\ q # 0
                      THEN /\ sess' = [sess EXCEPT ![q].winsize = w.v]
                           /\ UNCHANGED res
                      ELSE /\ UNCHANGED sess
                           /\ res' = [res EXCEPT ![h] =
                                  IF w.exc \in {"", "ValueError"}
                                  THEN NoRes ELSE Raised(w.exc)]
    /\ pc' = [pc EXCEPT ![h] = "done"]
    /\ UNCHANGED <<vaultData, op, ord, row, resp, tnow, terminals, hterm,
                   nforks, fdOpen, child, loop, wat, ptyBuf, produced,
                   delivered, ptyIn, closes, termSig, lateCapture>>

\* ------------------------------------------------------------------------
\* The children and _read_loop
\* ------------------------------------------------------------------------

\* What every child prints: an ASCII character and a character of two
\* bytes in UTF-8.
Output == <<"a", "e">>
\* The number of bytes one os.read returns at most: the 4096 of line 510, in
\* a model whose child prints three bytes.
ReadMax == 2

\* str.encode("utf-8"): "a" is one byte, "e" a lead byte and a continuation
\* byte, and U+FFFD ("R") three bytes no child prints.
RECURSIVE Encode(_)
Encode(str) ==
    IF str = <<>> THEN <<>>
    ELSE (CASE str[1] = "a" -> <<"a">>
            [] str[1] = "e" -> <<"L", "T">>
            [] OTHER -> <<"X", "Y", "Z">>) \o Encode(Tail(str))

\* chunk.decode("utf-8", errors="replace"): a byte that is no character by
\* itself or with what follows it in the chunk becomes U+FFFD.
RECURSIVE Decode(_)
Decode(chunk) ==
    IF chunk = <<>> THEN <<>>
    ELSE IF chunk[1] = "a" THEN <<"a">> \o Decode(Tail(chunk))
    ELSE IF chunk[1] = "L" /\ Len(chunk) >= 2 /\ chunk[2] = "T"
    THEN <<"e">> \o Decode(SubSeq(chunk, 3, Len(chunk)))
    ELSE <<"R">> \o Decode(Tail(chunk))

IsPrefix(p, q) == Len(p) <= Len(q) /\ SubSeq(q, 1, Len(p)) = p

\* A child writes its output to its terminal.
ChildWrite(i) ==
    /\ child[i] = "running"
    /\ produced[i] = <<>>
    /\ produced' = [produced EXCEPT ![i] = Encode(Output)]
    /\ ptyBuf' = [ptyBuf EXCEPT ![i] = @ \o Encode(Output)]
    /\ UNCHANGED <<vaultVars, terminals, hterm, nforks, fdOpen, child, sess,
                   loop, wat, delivered, ptyIn, closes, termSig, lateCapture>>

\* A child exits, by itself or by a signal: a zombie until it is waited for.
ChildExit(i) ==
    /\ child[i] = "running"
    /\ child' = [child EXCEPT ![i] = "zombie"]
    /\ UNCHANGED <<vaultVars, terminals, hterm, nforks, fdOpen, sess, loop,
                   wat, ptyBuf, produced, delivered, ptyIn, closes, termSig,
                   lateCapture>>

\* Lines 506 and 521: while sid in _terminals, else terminal_exit.
lp_check(i) ==
    /\ loop[i].pc = "check"
    /\ loop' = [loop EXCEPT ![i] =
                  IF sess[i].sid \in DOMAIN terminals
                  THEN [pc |-> "read", why |-> ""]
                  ELSE [pc |-> "ended", why |-> "gone"]]
    /\ UNCHANGED <<vaultVars, terminals, hterm, nforks, fdOpen, child, sess,
                   wat, ptyBuf, produced, delivered, ptyIn, closes, termSig,
                   lateCapture>>

\* Lines 507-521: select and os.read on the loop's descriptor number, and
\* the chunk emitted as terminal_output.  A closed descriptor raises OSError;
\* an open one is the pty that holds the number now.  Without bytes to read,
\* the read fails once the child has exited, and the select times out else.
lp_read(i) ==
    /\ loop[i].pc = "read"
    /\ LET q == fdOpen[sess[i].fd]
           n == IF Len(ptyBuf[q]) < ReadMax THEN Len(ptyBuf[q]) ELSE ReadMax
       IN  IF q = 0
           THEN /\ loop' = [loop EXCEPT ![i] = [pc |-> "ended", why |-> "badfd"]]
                /\ UNCHANGED <<ptyBuf, delivered>>
           ELSE IF ptyBuf[q] # <<>>
           THEN /\ ptyBuf' = [ptyBuf EXCEPT ![q] = SubSeq(@, n + 1, Len(@))]
                /\ delivered' = [delivered EXCEPT ![i] =
                                    @ \o Decode(SubSeq(ptyBuf[q], 1, n))]
                /\ loop' = [loop EXCEPT ![i].pc = "check"]
           ELSE IF child[q] # "running"
           THEN /\ loop' = [loop EXCEPT ![i] = [pc |-> "ended", why |-> "eof"]]
                /\ UNCHANGED <<ptyBuf, delivered>>
           ELSE /\ loop' = [loop EXCEPT ![i].pc = "check"]
                /\ UNCHANGED <<ptyBuf, delivered>>
    /\ UNCHANGED <<vaultVars, terminals, hterm, nforks, fdOpen, child, sess,
                   wat, produced, ptyIn, closes, termSig, lateCapture>>

\* ------------------------------------------------------------------------
\* _watch_credentials and capture_oauth_tokens
\* ------------------------------------------------------------------------

\* The tokens an external login writes to the credentials file.
LoginAccess == 5
LoginRefresh == 6

\* The claude program completes a login: it writes the credentials file,
\* with or without an access token in it.
ExternalLogin ==
    /\ ~credFile.present
    /\ nforks > 0
    /\ \E at \in {NoTok, LoginAccess} :
        credFile' = [present |-> TRUE, whole |-> TRUE, accessToken |-> at,
                     refreshToken |-> IF at = NoTok THEN NoTok ELSE LoginRefresh,
                     expiresAt |-> 0, other |-> 1, mtime |-> now]
    /\ UNCHANGED <<keyFile, osEnv, accounts, now, pc, op, row, resp, tnow, res, ord,
                   validRt, issued, accepted, resent, exposedOld, relayVars,
                   lateCapture>>

\* Line 591 of _watch_credentials: while sid in _terminals.
w_check(w) ==
    /\ pc[w] = "w_check"
    /\ pc' = [pc EXCEPT ![w] =
                IF op[w].sid \in DOMAIN terminals THEN "w_stat" ELSE "done"]
    /\ UNCHANGED <<vaultData, callLocals, relayVars, lateCapture>>

\* Lines 593-595 without the test of line 596: a capture is attempted
\* whenever the file exists.
w_stat_no_baseline(w) ==
    /\ pc[w] = "w_stat"
    /\ IF credFile.present
       THEN /\ wat' = [wat EXCEPT ![SessionOf(w)].cur = credFile.mtime]
            /\ pc' = [pc EXCEPT ![w] = "cap_read"]
       ELSE /\ pc' = [pc EXCEPT ![w] = "w_check"]
            /\ UNCHANGED wat
    /\ UNCHANGED <<vaultData, callLocals, terminals, hterm, nforks, fdOpen,
                   child, sess, loop, ptyBuf, produced, delivered, ptyIn,
                   closes, termSig, lateCapture>>

\* Lines 593-596 and 610: the file's mtime against mtime_ref.
w_stat(w) ==
    /\ pc[w] = "w_stat"
    /\ LET i == SessionOf(w)
       IN  IF credFile.present
           THEN /\ wat' = [wat EXCEPT ![i].cur = credFile.mtime]
                /\ pc' = [pc EXCEPT ![w] =
                            IF credFile.mtime > wat[i].mtime_ref
                            THEN "cap_read" ELSE "w_check"]
           ELSE /\ pc' = [pc EXCEPT ![w] = "w_check"]
                /\ UNCHANGED wat
    /\ UNCHANGED <<vaultData, callLocals, terminals, hterm, nforks, fdOpen,
                   child, sess, loop, ptyBuf, produced, delivered, ptyIn,
                   closes, termSig, lateCapture>>

\* Lines 276-285 with the file's expiresAt left out of the keywords.
cap_read_no_expiry(t) ==
    /\ pc[t] = "cap_read"
    /\ IF ~credFile.present
       THEN Return(t, Err("FileNotFound")) /\ UNCHANGED resp
       ELSE IF credFile.accessToken = NoTok
       THEN Return(t, Err("NoAccessToken")) /\ UNCHANGED resp
       ELSE /\ resp' = [resp EXCEPT ![t].access_token = credFile.accessToken,
                                    ![t].refresh_token = credFile.refreshToken]
            /\ Goto(t, "ua_select")
    /\ UNCHANGED <<vaultData, op, ord, row, tnow, relayVars, lateCapture>>

\* capture_oauth_tokens's lines 268-285: the file read, and its tokens.
cap_read(t) ==
    /\ pc[t] = "cap_read"
    /\ IF ~credFile.present
       THEN Return(t, Err("FileNotFound")) /\ UNCHANGED resp
       ELSE IF credFile.accessToken = NoTok
       THEN Return(t, Err("NoAccessToken")) /\ UNCHANGED resp
       ELSE /\ resp' = [resp EXCEPT ![t].access_token = credFile.accessToken,
                                    ![t].refresh_token = credFile.refreshToken,
                                    ![t].expires_at = credFile.expiresAt]
            /\ Goto(t, "ua_select")
    /\ UNCHANGED <<vaultData, op, ord, row, tnow, relayVars, lateCapture>>

\* Lines 606-607 and 610: except Exception: mtime_ref = cur.
w_failed(w) ==
    /\ pc[w] = "w_failed"
    /\ wat' = [wat EXCEPT ![SessionOf(w)].mtime_ref = wat[SessionOf(w)].cur]
    /\ pc' = [pc EXCEPT ![w] = "w_check"]
    /\ UNCHANGED <<vaultData, callLocals, terminals, hterm, nforks, fdOpen,
                   child, sess, loop, ptyBuf, produced, delivered, ptyIn,
                   closes, termSig, lateCapture>>

\* Lines 599-605: login_complete is emitted and the watcher returns.
w_emit(w) ==
    /\ pc[w] = "w_emit"
    /\ pc' = [pc EXCEPT ![w] = "done"]
    /\ lateCapture' = (lateCapture \/ Ended(SessionOf(w)))
    /\ UNCHANGED <<vaultData, callLocals, relayVars>>

\* ------------------------------------------------------------------------
\* Specifications
\* ------------------------------------------------------------------------

\* The secrets the table holds when the model starts.
InitAccess == 1
InitRefresh == 2
InitApiKey == 3

\* The table after add_account of an OAuth account and of an API key
\* account, each with or without its secrets; the OAuth account's expiry is
\* unset (0) or the time the model starts at.
InitRows ==
    {[acc_o |-> [name |-> "personal", auth_type |-> "oauth",
                 api_key_enc |-> EmptyCt, access_token_enc |-> at,
                 refresh_token_enc |-> rt, expires_at |-> e,
                 last_used |-> NoneVal],
      acc_k |-> [name |-> "work", auth_type |-> "api_key",
                 api_key_enc |-> ak, access_token_enc |-> EmptyCt,
                 refresh_token_enc |-> EmptyCt, expires_at |-> 0,
                 last_used |-> NoneVal]] :
        at \in {EmptyCt, [k |-> 1, pt |-> InitAccess]},
        rt \in {EmptyCt, [k |-> 1, pt |-> InitRefresh]},
        e \in {0, StartMs},
        ak \in {EmptyCt, [k |-> 1, pt |-> InitApiKey]}}

\* No request has arrived and no session was started.
InitThreads ==
    /\ pc = [t \in Threads |-> "idle"]
    /\ op = [t \in Threads |-> NoOp]
    /\ row = [t \in Threads |-> NoRow]
    /\ resp = [t \in Threads |-> NoResp]
    /\ tnow = [t \in Threads |-> NoneVal]
    /\ res = [t \in Threads |-> NoRes]
    /\ ord = [t \in Threads |-> [rank |-> 0, during |-> {}]]
    /\ terminals = [k \in {} |-> NoTerm]
    /\ hterm = [h \in Handlers |-> NoTerm]
    /\ nforks = 0
    /\ fdOpen = [n \in FdNums |-> 0]
    /\ child = [i \in Pids |-> "none"]
    /\ sess = [i \in Pids |-> NoSess]
    /\ loop = [i \in Pids |-> NoLoop]
    /\ wat = [i \in Pids |-> NoWat]
    /\ ptyBuf = [i \in Pids |-> <<>>]
    /\ produced = [i \in Pids |-> <<>>]
    /\ delivered = [i \in Pids |-> <<>>]
    /\ ptyIn = [i \in Pids |-> 0]
    /\ closes = [i \in Pids |-> 0]
    /\ termSig = [i \in Pids |-> 0]
    /\ lateCapture = FALSE

InitEndpoint ==
    /\ validRt = {InitRefresh}
    /\ issued = 0
    /\ accepted = {}
    /\ resent = FALSE
    /\ exposedOld = FALSE

Init ==
    /\ keyFile = 1
    /\ osEnv = PlainEnv
    /\ accounts \in InitRows
    /\ credFile = NoFile
    /\ now = StartMs
    /\ InitThreads
    /\ InitEndpoint

\* The vault under concurrent requests.
Next ==
    \/ Tick
    \/ \E t \in Callers :
        \/ Call(t)
        \/ gle_select(t) \/ gle_check(t) \/ gle_reread(t)
        \/ rf_select(t) \/ rf_post(t)
        \/ ua_select(t) \/ ua_update(t)
        \/ sync_select(t) \/ sync_read(t)
        \/ sync_mkstemp(t) \/ sync_dump(t) \/ sync_replace(t)
        \/ st_select(t) \/ st_eval(t)
        \/ export_all(t)

Spec == Init /\ [][Next]_vars

\* The vault under requests that do not overlap: a request's steps are taken
\* while no other request is in progress.
Alone(t) == \A u \in Callers \ {t} : pc[u] \in {"idle", "done"}

NextSeq ==
    \/ Tick
    \/ \E t \in Callers : Alone(t) /\ Call(t)
    \/ \E t \in Callers : Alone(t) /\ gle_select(t)
    \/ \E t \in Callers : Alone(t) /\ gle_check(t)
    \/ \E t \in Callers : Alone(t) /\ gle_reread(t)
    \/ \E t \in Callers : Alone(t) /\ rf_select(t)
    \/ \E t \in Callers : Alone(t) /\ rf_post(t)
    \/ \E t \in Callers : Alone(t) /\ ua_select(t)
    \/ \E t \in Callers : Alone(t) /\ ua_update(t)
    \/ \E t \in Callers : Alone(t) /\ sync_select(t)
    \/ \E t \in Callers : Alone(t) /\ sync_read(t)
    \/ \E t \in Callers : Alone(t) /\ sync_mkstemp(t)
    \/ \E t \in Callers : Alone(t) /\ sync_dump(t)
    \/ \E t \in Callers : Alone(t) /\ sync_replace(t)
    \/ \E t \in Callers : Alone(t) /\ st_select(t)
    \/ \E t \in Callers : Alone(t) /\ st_eval(t)
    \/ \E t \in Callers : Alone(t) /\ export_all(t)

SpecSeq == Init /\ [][NextSeq]_vars

\* The relay: the table holds an OAuth account whose token has no expiry and
\* an API key account, so that a session's launch needs no refresh.
RelayRows ==
    [acc_o |-> [name |-> "personal", auth_type |-> "oauth",
                api_key_enc |-> EmptyCt,
                access_token_enc |-> [k |-> 1, pt |-> InitAccess],
                refresh_token_enc |-> [k |-> 1, pt |-> InitRefresh],
                expires_at |-> 0, last_used |-> NoneVal],
     acc_k |-> [name |-> "work", auth_type |-> "api_key",
                api_key_enc |-> [k |-> 1, pt |-> InitApiKey],
                access_token_enc |-> EmptyCt, refresh_token_enc |-> EmptyCt,
                expires_at |-> 0, last_used |-> NoneVal]]

InitRelay ==
    /\ keyFile = 1
    /\ osEnv = PlainEnv
    /\ accounts = RelayRows
    /\ credFile = NoFile
    /\ now = StartMs
    /\ InitThreads
    /\ InitEndpoint

\* The relay of terminal sessions: start_terminal for the API key account
\* or an unknown one, input, stop and disconnect, while the children exit
\* and the read loops poll.
TerminalOps == {"start_terminal", "terminal_input", "stop_terminal",
                "disconnect"}

NextRelay ==
    \/ \E h \in Handlers :
        \/ HCall(h) /\ op'[h].name \in TerminalOps /\ op'[h].acc # "acc_o"
        \/ cl_pop(h) \/ cl_close(h) \/ cl_kill(h) \/ cl_wait(h)
        \/ gle_select(h) \/ gle_check(h)
        \/ fork(h) \/ fork_fail(h) \/ register(h)
        \/ in_get(h) \/ in_write(h)
    \/ \E i \in Pids :
        \/ ChildExit(i)
        \/ lp_check(i) \/ lp_read(i)

SpecRelay == InitRelay /\ [][NextRelay]_vars

\* Sessions started, resized and stopped.
NextResize ==
    \E h \in Handlers :
        \/ HCall(h) /\ op'[h].acc # "acc_o"
                    /\ op'[h].name \in {"start_terminal", "resize_terminal",
                                        "stop_terminal"}
        \/ cl_pop(h) \/ cl_close(h) \/ cl_kill(h) \/ cl_wait(h)
        \/ gle_select(h) \/ gle_check(h)
        \/ fork(h) \/ register(h)
        \/ handle_resize(h)

SpecResize == InitRelay /\ [][NextResize]_vars

\* Sessions started and stopped while the read loops poll.
NextStop ==
    \/ \E h \in Handlers :
        \/ HCall(h) /\ op'[h].acc # "acc_o"
                    /\ op'[h].name \in {"start_terminal", "stop_terminal"}
        \/ cl_pop(h) \/ cl_close(h) \/ cl_kill(h) \/ cl_wait(h)
        \/ gle_select(h) \/ gle_check(h)
        \/ fork(h) \/ register(h)
    \/ \E i \in Pids :
        \/ ChildExit(i)
        \/ lp_check(i) \/ lp_read(i)

\* The threads of the server are scheduled fairly: a read loop that can take
\* its next step takes it (select returns after 0.1 s at the latest), and so
\* does a handler that has started.  Nothing makes an event arrive or a child
\* exit.
FairStop ==
    /\ \A i \in Pids : WF_vars(lp_check(i)) /\ WF_vars(lp_read(i))
    /\ \A h \in Handlers :
          WF_vars(cl_pop(h) \/ cl_close(h) \/ cl_kill(h) \/ cl_wait(h)
                  \/ gle_select(h) \/ gle_check(h) \/ fork(h) \/ register(h))

SpecStop == InitRelay /\ [][NextStop]_vars /\ FairStop

\* The relay of a session's output: two events, start_terminal and stop,
\* while the children print and exit and the read loops relay.
EventPair == {11, 12}

NextOutput ==
    \/ \E h \in EventPair :
        \/ HCall(h) /\ op'[h].name \in {"start_terminal", "stop_terminal"}
                    /\ op'[h].acc # "acc_o"
        \/ cl_pop(h) \/ cl_close(h) \/ cl_kill(h) \/ cl_wait(h)
        \/ gle_select(h) \/ gle_check(h)
        \/ fork(h) \/ register(h)
    \/ \E i \in Pids :
        \/ ChildWrite(i) \/ ChildExit(i)
        \/ lp_check(i) \/ lp_read(i)

SpecOutput == InitRelay /\ [][NextOutput]_vars

\* The write-back under crashes: the credentials file holds the document of
\* an earlier login, with other top-level keys, and concurrent
\* refresh_account requests are killed at any step of their write-back.
PrevFile == [present |-> TRUE, whole |-> TRUE, accessToken |-> LoginAccess,
             refreshToken |-> LoginRefresh, expiresAt |-> 0, other |-> 1,
             mtime |-> 0]

InitCrash ==
    /\ keyFile = 1
    /\ osEnv = PlainEnv
    /\ accounts \in InitRows
    /\ credFile = PrevFile
    /\ now = StartMs
    /\ InitThreads
    /\ InitEndpoint

NextCrash ==
    \E t \in Callers :
        \/ Call(t) /\ op'[t].name = "refresh"
        \/ rf_select(t) \/ rf_post(t)
        \/ ua_select(t) \/ ua_update(t)
        \/ sync_select(t) \/ sync_read(t)
        \/ sync_mkstemp(t) \/ sync_dump(t) \/ sync_replace(t)
        \/ sync_fail(t)
        \/ Crash(t)

SpecCrash == InitCrash /\ [][NextCrash]_vars

\* Account management: the table holds an OAuth account that has not logged
\* in yet and an API key account.
AdminRows ==
    [acc_o |-> [name |-> <<"k", "w">>, auth_type |-> "oauth",
                api_key_enc |-> EmptyCt, access_token_enc |-> EmptyCt,
                refresh_token_enc |-> EmptyCt,
                expires_at |-> 0, last_used |-> NoneVal],
     acc_k |-> [name |-> <<"w", "k">>, auth_type |-> "api_key",
                api_key_enc |-> [k |-> 1, pt |-> InitApiKey],
                access_token_enc |-> EmptyCt, refresh_token_enc |-> EmptyCt,
                expires_at |-> 0, last_used |-> NoneVal]]

\* The names a request may carry: a name of the table, the same in another
\* case, a new name with a space, and a name of one character.
RawNames == {<<"w", "k">>, <<"W", "k">>, <<"n", " ", "w">>, <<" ", "w">>}

\* The keywords a request of each kind may carry.
AdminArgs(name) ==
    CASE name = "create" ->
            {[NoArg EXCEPT !.name = n, !.auth_type = "api_key",
                           !.api_key = InitApiKey] : n \in RawNames}
            \cup {[NoArg EXCEPT !.name = n, !.auth_type = "oauth"] :
                     n \in RawNames}
      [] name = "update" ->
            {[NoArg EXCEPT !.name = n] : n \in {<<"W", "k">>, <<"k", "w">>}}
            \cup {[NoArg EXCEPT !.auth_type = ty] : ty \in {"api_key", "oauth"}}
            \cup {[NoArg EXCEPT !.api_key = InitApiKey],
                  [NoArg EXCEPT !.access_token = InitAccess]}
      [] name = "import" ->
            {[NoArg EXCEPT !.name = n] : n \in RawNames}
            \cup {[NoArg EXCEPT !.name = n, !.auth_type = "oauth",
                                !.api_key = InitApiKey,
                                !.access_token = InitAccess] : n \in RawNames}
            \cup {[NoArg EXCEPT !.name = n, !.rest = <<m>>] :
                     n \in RawNames, m \in RawNames}
      [] OTHER -> {NoArg}

AdminOps == {"create", "update", "import", "capture", "status"}

\* A request of account management arrives: its thread starts the call.
ACall(t) ==
    /\ pc[t] = "idle"
    /\ \E name \in AdminOps, a \in AccArgs :
        /\ name \in {"create", "import"} => a = "acc_x"
        /\ \E kw \in AdminArgs(name) :
            op' = [op EXCEPT ![t] = [name |-> name, acc |-> a, sid |-> "",
                                    arg |-> kw]]
        /\ pc' = [pc EXCEPT ![t] = FirstPc(name)]
    /\ ord' = [ord EXCEPT ![t] =
                 [rank |-> 1 + Cardinality({u \in Callers : ord[u].rank > 0}),
                  during |-> {u \in Callers : pc[u] \notin {"idle", "done"}}]]
    /\ UNCHANGED <<vaultData, row, resp, tnow, res, relayVars, lateCapture>>

InitAdmin ==
    /\ keyFile = 1
    /\ osEnv = PlainEnv
    /\ accounts = AdminRows
    /\ credFile = NoFile
    /\ now = StartMs
    /\ InitThreads
    /\ InitEndpoint

\* Accounts created, updated and imported by concurrent requests.
NextAdmin ==
    \E t \in Callers :
        \/ ACall(t) /\ op'[t].name \in {"create", "update", "import"}
                    /\ op'[t].arg.rest = <<>>
        \/ ad_check(t) \/ im_check(t) \/ gc_exists(t) \/ add_account(t)
        \/ ua_select(t) \/ ua_update(t)

SpecAdmin == InitAdmin /\ [][NextAdmin]_vars

\* Lists of one or two entries imported by requests that do not overlap.
NextImport ==
    \/ \E t \in Callers : Alone(t) /\ ACall(t) /\ op'[t].name = "import"
    \/ \E t \in Callers : Alone(t) /\ im_check(t)
    \/ \E t \in Callers : Alone(t) /\ gc_exists(t)
    \/ \E t \in Callers : Alone(t) /\ add_account(t)

SpecImport == InitAdmin /\ [][NextImport]_vars

\* Accounts created by concurrent requests, and nothing else.
NextCreate ==
    \E t \in Callers :
        \/ ACall(t) /\ op'[t].name = "create"
        \/ ad_check(t) \/ gc_exists(t) \/ add_account(t)

SpecCreate == InitAdmin /\ [][NextCreate]_vars

\* A fresh installation: no key file and no account yet, and concurrent
\* requests that create the first accounts.
InitFresh ==
    /\ keyFile = 0
    /\ osEnv = PlainEnv
    /\ accounts = [a \in {} |-> NoRow]
    /\ credFile = NoFile
    /\ now = StartMs
    /\ InitThreads
    /\ InitEndpoint

NextFresh ==
    \E t \in Callers :
        \/ ACall(t) /\ op'[t].name = "create"
        \/ ad_check(t) \/ gc_exists(t) \/ gc_write(t) \/ add_account(t)

SpecFresh == InitFresh /\ [][NextFresh]_vars

\* Capture: there is no credentials file, or one without an access token,
\* or one of a login whose token has no expiry, or expires in half a minute
\* or in a minute and a half.
CaptureFiles ==
    {NoFile, [PrevFile EXCEPT !.accessToken = NoTok, !.refreshToken = NoTok]}
    \cup {[PrevFile EXCEPT !.expiresAt = e] :
             e \in {0, StartMs + TickMs, StartMs + 3 * TickMs}}

InitCapture ==
    /\ keyFile = 1
    /\ osEnv = PlainEnv
    /\ accounts = AdminRows
    /\ credFile \in CaptureFiles
    /\ now = StartMs
    /\ InitThreads
    /\ InitEndpoint

\* capture_oauth_tokens and token_status by concurrent requests.
NextCapture ==
    \/ Tick
    \/ \E t \in Callers :
        \/ ACall(t) /\ op'[t].name \in {"capture", "status"}
        \/ cap_read(t) \/ ua_select(t) \/ ua_update(t)
        \/ st_select(t) \/ st_eval(t)

SpecCapture == InitCapture /\ [][NextCapture]_vars

\* Two accounts, each with requests of its own: the second account is the
\* API key account, or an OAuth account with the tokens of a login whose
\* refresh token the endpoint does not hold valid, expiring at the start.
FrameRows ==
    InitRows \cup
    {[r EXCEPT !.acc_k = [r.acc_o EXCEPT
                            !.name = "work",
                            !.access_token_enc = [k |-> 1, pt |-> LoginAccess],
                            !.refresh_token_enc = [k |-> 1, pt |-> LoginRefresh],
                            !.expires_at = StartMs]] : r \in InitRows}

InitFrame ==
    /\ keyFile = 1
    /\ osEnv = PlainEnv
    /\ accounts \in FrameRows
    /\ credFile \in {NoFile, PrevFile}
    /\ now = StartMs
    /\ InitThreads
    /\ InitEndpoint

\* resolve, refresh and capture of one account beside those of the other.
NextFrame ==
    \/ Tick
    \/ \E t \in Callers :
        \/ /\ \/ Call(t) /\ op'[t].name \in {"resolve", "refresh"}
              \/ ACall(t) /\ op'[t].name = "capture"
           /\ op'[t].acc \in AccIds
           /\ \A u \in Callers \ {t} : op[u].acc # op'[t].acc
        \/ gle_select(t) \/ gle_check(t) \/ gle_reread(t)
        \/ rf_select(t) \/ rf_post(t)
        \/ cap_read(t)
        \/ ua_select(t) \/ ua_update(t)
        \/ sync_select(t) \/ sync_read(t)
        \/ sync_mkstemp(t) \/ sync_dump(t) \/ sync_replace(t)

SpecFrame == InitFrame /\ [][NextFrame]_vars

\* The launch of sessions: the server's environment has any of the two
\* identity variables set, and a PATH with or without claude.
OsEnvs == [EnvVars -> {0, 1}]

InitLaunch ==
    /\ keyFile = 1
    /\ osEnv \in OsEnvs
    /\ accounts = RelayRows
    /\ credFile = NoFile
    /\ now = StartMs
    /\ InitThreads
    /\ InitEndpoint

NextLaunch ==
    \/ \E h \in EventPair :
        \/ HCall(h) /\ op'[h].name \in {"start_terminal", "stop_terminal"}
        \/ cl_pop(h) \/ cl_close(h) \/ cl_kill(h) \/ cl_wait(h)
        \/ gle_select(h) \/ gle_check(h)
        \/ fork(h) \/ register(h)
    \/ \E i \in Pids :
        \/ ChildExit(i)
        \/ lp_check(i) \/ lp_read(i)

SpecLaunch == InitLaunch /\ [][NextLaunch]_vars

\* Sessions started on a table of which one account has a secret that was
\* encrypted with another key than the key file's.
CorruptRows ==
    {[RelayRows EXCEPT !.acc_k.api_key_enc.k = 2],
     [RelayRows EXCEPT !.acc_o.access_token_enc.k = 2]}

InitCorrupt ==
    /\ keyFile = 1
    /\ osEnv = PlainEnv
    /\ accounts \in CorruptRows
    /\ credFile = NoFile
    /\ now = StartMs
    /\ InitThreads
    /\ InitEndpoint

SpecCorrupt == InitCorrupt /\ [][NextLaunch]_vars

\* Login sessions: two events, start_login and stop, while the children
\* exit, a login completes, and the loops and the watchers poll.
NextLogin ==
    \/ \E h \in EventPair :
        \/ HCall(h) /\ op'[h].name \in {"start_login", "stop_terminal"}
                    /\ op'[h].acc # "acc_k"
        \/ cl_pop(h) \/ cl_close(h) \/ cl_kill(h) \/ cl_wait(h)
        \/ lg_account(h)
        \/ fork(h) \/ register(h)
    \/ \E i \in Pids :
        \/ ChildExit(i)
        \/ lp_check(i) \/ lp_read(i)
    \/ ExternalLogin
    \/ \E w \in Watchers :
        \/ w_check(w) \/ w_stat(w)
        \/ cap_read(w) \/ ua_select(w) \/ ua_update(w)
        \/ w_failed(w) \/ w_emit(w)

SpecLogin == InitRelay /\ [][NextLogin]_vars

\* ------------------------------------------------------------------------
\* Properties of the vault
\* ------------------------------------------------------------------------

\* Two calls overlap when one started while the other was in progress.
Overlap(t, u) == u \in ord[t].during \/ t \in ord[u].during

\* The calls of resolve_launch_credentials that have returned.
Resolved(t) == pc[t] = "done" /\ op[t].name = "resolve"

\* C1: when calls of resolve_launch_credentials overlap on the same OAuth
\* account, at most one of them sends a refresh request to the token
\* endpoint, and those that went through the refresh return the same result.
C1_SingleRefresh ==
    \A t, u \in Callers :
        (/\ t # u
         /\ Overlap(t, u)
         /\ op[t].name = "resolve" /\ op[u].name = "resolve"
         /\ op[t].acc = op[u].acc)
        => /\ ~(resp[t].status # "none" /\ resp[u].status # "none")
           /\ (/\ pc[t] = "done" /\ pc[u] = "done"
               /\ resp[t].sent # NoTok /\ resp[u].sent # NoTok)
              => res[t] = res[u]

\* C2: a refresh token the endpoint has accepted in an exchange is never sent
\* to the endpoint again and never returned by export_all.
C2_AcceptedNeverReused == ~resent /\ ~exposedOld

\* The row a finished call read holds an OAuth access token whose expiry is
\* the very time the call read from the clock.
AtBoundary(t) ==
    /\ pc[t] = "done"
    /\ row[t].auth_type = "oauth"
    /\ row[t].access_token_enc # EmptyCt
    /\ row[t].expires_at > 0
    /\ tnow[t] = row[t].expires_at

\* C8 as stated: at expires_at = now the account is expired; resolve goes to
\* the refresh or fails with CredentialExpired, token_status says expired.
C8_BoundaryExpired ==
    \A t \in Callers :
        AtBoundary(t) =>
            /\ op[t].name = "resolve" =>
                  (resp[t].sent # NoTok \/ res[t] = Err("CredentialExpired"))
            /\ op[t].name = "status" => res[t].tag = "expired"

\* C8 as amended: at expires_at = now the account is not expired yet;
\* resolve returns the stored access token without a refresh, token_status
\* says ok with 0 minutes remaining.
C8_BoundaryValid ==
    \A t \in Callers :
        AtBoundary(t) =>
            /\ op[t].name = "resolve" =>
                  /\ resp[t] = NoResp
                  /\ res[t] = Env("CLAUDE_CODE_OAUTH_TOKEN",
                                  decrypt(row[t].access_token_enc))
            /\ op[t].name = "status" =>
                  res[t].tag = "ok" /\ res[t].rem = 0

\* A resolve and a token_status have both met the boundary.
C8_BoundaryReached ==
    \E t, u \in Callers :
        /\ AtBoundary(t) /\ op[t].name = "resolve" /\ res[t].kind = "env"
        /\ AtBoundary(u) /\ op[u].name = "status" /\ res[u].kind = "status"

\* The call u is the token_status on t's account that follows the call t,
\* made before the lifetime the endpoint issued to t, if any, had passed.
StatusAfter(t, u) ==
    /\ pc[u] = "done"
    /\ op[u].name = "status"
    /\ op[u].acc = op[t].acc
    /\ ord[u].rank = ord[t].rank + 1
    /\ \/ resp[t].expires_in = 0
       \/ tnow[u] <= resp[t].at + resp[t].expires_in * MsPerSec

C10_ResolveErrors ==
    \A t \in Callers :
        Resolved(t) =>
            /\ (row[t].auth_type = "api_key" /\ row[t].api_key_enc = EmptyCt)
                  => res[t] = Err("MissingCredential")
            /\ (row[t].auth_type = "oauth" /\ row[t].access_token_enc = EmptyCt)
                  => res[t] = Err("MissingCredential")
            /\ (/\ row[t].auth_type = "oauth"
                /\ row[t].access_token_enc # EmptyCt
                /\ row[t].expires_at > 0 /\ tnow[t] > row[t].expires_at
                /\ row[t].refresh_token_enc = EmptyCt)
                  => res[t] = Err("CredentialExpired")
            /\ resp[t].status \in {"unreachable", "rejected"}
                  => res[t] = Err("CredentialExpired")

\* One resolve has failed on a rejected refresh, another on a missing key.
C10_ErrorsReached ==
    \E t, u \in Callers :
        /\ Resolved(t) /\ resp[t].status = "rejected"
        /\ res[t] = Err("CredentialExpired")
        /\ Resolved(u) /\ row[u].auth_type = "api_key"
        /\ res[u] = Err("MissingCredential")

\* No call has started after the call t.
LastCall(t) == \A u \in Callers : ord[u].rank <= ord[t].rank

\* The call t is a refresh_account that has returned with success.
Refreshed(t) ==
    pc[t] = "done" /\ op[t].name = "refresh" /\ res[t].kind = "refreshed"

C3_TeardownOnce ==
    \A i \in Pids : closes[i] <= 1 /\ termSig[i] <= 1

\* A stop is between its close and its kill of a session, while a
\* disconnect and a restart that arrived after it have gone through their
\* cleanup.
C3_TeardownsInterleaved ==
    \E i \in Pids, g, h, k \in Handlers :
        /\ g < h /\ g < k /\ h # k
        /\ op[g].name = "stop_terminal" /\ pc[g] = "cl_kill"
        /\ hterm[g].pid = i /\ closes[i] = 1
        /\ op[h].name = "disconnect" /\ pc[h] = "done"
        /\ op[k].name = "start_terminal" /\ pc[k] \notin {"idle", "cl_pop"}

\* The read loop of session i has ended on its own child's exit, seen
\* through the session's own pty.
SawExit(i) ==
    /\ loop[i].pc = "ended"
    /\ loop[i].why = "eof"
    /\ child[i] # "running"

\* C4: once a session's read loop has seen the child's exit, the session is
\* destroyed: no record of it in _terminals, its descriptor closed, its
\* child waited for.
C4_DestroyedOnExit ==
    \A i \in Pids :
        SawExit(i) =>
            /\ ~Registered(i)
            /\ fdOpen[sess[i].fd] # i
            /\ child[i] = "reaped"

\* The cleanup of session i is over: its descriptor was closed, its child
\* signalled, and no handler is inside _cleanup_terminal with its record.
TornDown(i) ==
    /\ closes[i] >= 1
    /\ termSig[i] >= 1
    /\ \A h \in Handlers :
          pc[h] \in {"cl_close", "cl_kill", "cl_wait"} => hterm[h].pid # i

\* C5: after start, input and stop, the session's descriptor is closed and
\* its child is no zombie: it was waited for once it had exited.  (A child
\* that has not exited yet after the signal is not counted as leaked.)
C5_NothingLeaked ==
    \A i \in Pids :
        (ptyIn[i] >= 1 /\ TornDown(i)) =>
            /\ fdOpen[sess[i].fd] # i
            /\ child[i] # "zombie"

\* C6: once a login session is stopped or its child has exited, its watcher
\* stores no tokens in the vault and emits no login_complete.
C6_WatcherStops == ~lateCapture

\* C7: the terminal_output payloads of a session, encoded and put end to
\* end, are a prefix of the bytes its child wrote.
C7_OutputIsPrefix ==
    \A i \in Pids : IsPrefix(Encode(delivered[i]), produced[i])

\* C12: every child a start_terminal has spawned has in its environment
\* exactly one identity variable, the one of its account's type with the
\* account's secret, and not the other one, whatever os.environ defines.
C12_OneIdentity ==
    \A i \in Pids :
        child[i] # "none" =>
            LET a == accounts[sess[i].acc]
                env == sess[i].env
            IN  IF a.auth_type = "api_key"
                THEN /\ env["ANTHROPIC_API_KEY"] = decrypt(a.api_key_enc)
                     /\ env["CLAUDE_CODE_OAUTH_TOKEN"] = 0
                ELSE /\ env["CLAUDE_CODE_OAUTH_TOKEN"] =
                            decrypt(a.access_token_enc)
                     /\ env["ANTHROPIC_API_KEY"] = 0

\* A child was spawned for the OAuth account while os.environ defines an
\* API key.
C12_SpawnedOverOther ==
    \E i \in Pids :
        /\ child[i] # "none"
        /\ sess[i].acc = "acc_o"
        /\ osEnv["ANTHROPIC_API_KEY"] # 0
        /\ sess[i].env["CLAUDE_CODE_OAUTH_TOKEN"] = InitAccess

\* C13: when PATH has no claude, so that spawning fails, a start_terminal
\* leaves no record under its key, emits no terminal_started and ends with
\* the error SpawnFailed (or the error of the resolve).
C13_SpawnFailureReported ==
    osEnv["PATH"] = 0 =>
        /\ DOMAIN terminals = {}
        /\ \A h \in Handlers :
            /\ res[h] # Started
            /\ (pc[h] = "done" /\ op[h].name = "start_terminal") =>
                  res[h].kind = "err"

\* C14: the auth_type of an account of the table never changes.
C14_AuthTypeFixed ==
    \A a \in AccIds : accounts[a].auth_type = AdminRows[a].auth_type

\* C15: an API key account has no access token and no refresh token stored,
\* and an OAuth account has no API key stored.
C15_SecretsMatchType ==
    \A a \in DOMAIN accounts :
        /\ accounts[a].auth_type = "api_key" =>
              /\ accounts[a].access_token_enc = EmptyCt
              /\ accounts[a].refresh_token_enc = EmptyCt
        /\ accounts[a].auth_type = "oauth" =>
              accounts[a].api_key_enc = EmptyCt

\* C16: every account name is in lower case, and no two accounts have names
\* that are equal when case is ignored.
C16_NamesLowerDistinct ==
    \A a \in DOMAIN accounts :
        /\ accounts[a].name = Lower(accounts[a].name)
        /\ \A b \in DOMAIN accounts \ {a} :
              Lower(accounts[a].name) # Lower(accounts[b].name)

\* The call t is a create_account that has ended, for the normalized name n.
Created(t, n) ==
    pc[t] = "done" /\ op[t].name = "create" /\ NormalName(op[t].arg.name) = n

\* C17: a create_account whose name normalizes to less than two characters
\* fails with InvalidName; one whose name normalizes to a name of the table
\* fails with DuplicateName, also when another creation of that name runs
\* at the same time; and no name is added twice.
C17_DuplicateRefused ==
    \A t \in Callers : \A n \in {NormalName(raw) : raw \in RawNames} :
        Created(t, n) =>
            /\ Len(n) < 2 => res[t] = Err("InvalidName")
            /\ (\E a \in AccIds : AdminRows[a].name = n) =>
                  res[t] = Err("DuplicateName")
            /\ Len(n) >= 2 =>
                  res[t].kind = "created" \/ res[t] = Err("DuplicateName")
            /\ Cardinality({a \in DOMAIN accounts : accounts[a].name = n}) <= 1

\* C18: whenever a request is killed during the write-back, and at every
\* other time, the credentials file holds a whole document: the one it had
\* before, or one with an access token and the refresh token issued with it.
C18_FileWhole ==
    /\ credFile.present
    /\ credFile.whole
    /\ \/ credFile = PrevFile
       \/ \E i \in 0..MaxIssued :
            /\ credFile.accessToken = NewAccess(i)
            /\ credFile.refreshToken = NewRefresh(i)

\* A request was killed after it wrote its temporary file and before the
\* rename, and the credentials file is the one of before.
C18_KilledBeforeRename ==
    \E t \in Callers :
        /\ res[t] = Raised("Killed")
        /\ resp[t].tmp = "full"
        /\ credFile = PrevFile

CaptureDone(t) ==
    /\ pc[t] = "done"
    /\ op[t].name = "capture"
    /\ op[t].acc \in AccIds
    /\ \A u \in Callers \ {t} : ~Overlap(t, u)

\* What capture_oauth_tokens does but for the minutes of the status: the
\* two errors leave the table as it was, and a capture stores the file's
\* three values.
CaptureStores(t) ==
    /\ ~credFile.present =>
          res[t] = Err("FileNotFound") /\ accounts = AdminRows
    /\ (credFile.present /\ credFile.accessToken = NoTok) =>
          res[t] = Err("NoAccessToken") /\ accounts = AdminRows
    /\ (credFile.present /\ credFile.accessToken # NoTok) =>
          LET a == accounts[op[t].acc]
          IN  /\ res[t].kind = "captured"
              /\ decrypt(a.access_token_enc) = credFile.accessToken
              /\ decrypt(a.refresh_token_enc) = credFile.refreshToken
              /\ a.expires_at = credFile.expiresAt

\* The call u is the token_status of the OAuth account that follows its
\* capture t, made while the file's expiry is in the future.
StatusAfterCapture(t, u) ==
    /\ CaptureDone(t) /\ res[t].kind = "captured"
    /\ op[t].acc = "acc_o"
    /\ pc[u] = "done" /\ op[u].name = "status" /\ op[u].acc = "acc_o"
    /\ ord[u].rank = ord[t].rank + 1
    /\ credFile.expiresAt > tnow[u]

\* C20 as claimed: capture_oauth_tokens fails with NoCredentialFile or
\* NoAccessToken and leaves the account unchanged, or stores the file's
\* values, and then token_status is ok with remaining minutes > 0 whenever
\* the file's expiry is in the future.
C20_CaptureThenPositive ==
    \A t \in Callers :
        CaptureDone(t) =>
            /\ CaptureStores(t)
            /\ \A u \in Callers :
                  StatusAfterCapture(t, u) =>
                      res[u].tag = "ok" /\ res[u].rem > 0

\* C20: capture_oauth_tokens fails with NoCredentialFile or NoAccessToken
\* and leaves the account unchanged, or stores the file's values, and then
\* token_status is ok with the whole minutes left to the file's expiry:
\* more than 0 when it is at least a minute ahead, 0 when it is nearer.
C20_CaptureThenOk ==
    \A t \in Callers :
        CaptureDone(t) =>
            /\ CaptureStores(t)
            /\ \A u \in Callers :
                  StatusAfterCapture(t, u) =>
                      /\ res[u].tag = "ok"
                      /\ res[u].rem =
                            TruncDiv(credFile.expiresAt - tnow[u], MsPerMin)
                      /\ credFile.expiresAt - tnow[u] >= MsPerMin =>
                            res[u].rem > 0

\* A capture was followed by a token_status less than a minute before the
\* file's expiry.
C20_CapturedThenAsked ==
    \E t, u \in Callers :
        /\ StatusAfterCapture(t, u)
        /\ credFile.expiresAt - tnow[u] < MsPerMin
        /\ res[u].rem = 0

\* The ids of the rows the import t may have inserted.
ImportedIds(t) == IF t = 1 THEN {"acc_1", "acc_1b"} ELSE {"acc_2", "acc_2b"}

CorruptSecret(a) ==
    a \in AccIds /\
    decrypt(IF accounts[a].auth_type = "api_key"
            THEN accounts[a].api_key_enc
            ELSE accounts[a].access_token_enc) = Corrupt

\* C22: a start_terminal on an account whose stored secret cannot be
\* decrypted ends like one on an account without secret: get_launch_env
\* fails with MissingCredential, terminal_error is emitted, and no child is
\* spawned for the account.
C22_CorruptAsMissing ==
    \A h \in Handlers :
        (/\ pc[h] = "done" /\ op[h].name = "start_terminal"
         /\ CorruptSecret(op[h].acc)) =>
            /\ res[h] = Err("MissingCredential")
            /\ \A i \in Pids : child[i] # "none" => sess[i].acc # op[h].acc

\* C23: every secret stored is decrypted with the key of the key file to
\* the plaintext it was encrypted from, and the empty string is encrypted
\* and decrypted to the empty string.
C23_StoredDecrypts ==
    /\ encrypt(NoTok) = EmptyCt
    /\ decrypt(EmptyCt) = NoTok
    /\ \A a \in DOMAIN accounts :
        \A f \in {"api_key_enc", "access_token_enc", "refresh_token_enc"} :
            accounts[a][f] # EmptyCt =>
                decrypt(accounts[a][f]) = accounts[a][f].pt

\* C24: a step of token_status changes neither the table (last_used
\* included) nor the credentials file, and sends nothing to the token
\* endpoint.
C24_StatusReadsOnly ==
    [][\A t \in Callers :
          (op[t].name = "status" /\ pc'[t] # pc[t]) =>
              /\ accounts' = accounts
              /\ credFile' = credFile
              /\ issued' = issued
              /\ validRt' = validRt
              /\ accepted' = accepted]_vars

\* token_status has reported an expired token that has a refresh token.
C24_ExpiredReported ==
    \E t \in Callers :
        /\ pc[t] = "done" /\ op[t].name = "status"
        /\ res[t].tag = "expired" /\ res[t].has_refresh
        /\ accounts[op[t].acc].last_used = NoneVal
        /\ issued = 0

\* The call t is a resolve that has returned an environment variable.
Resolved_ok(t) ==
    pc[t] = "done" /\ op[t].name = "resolve" /\ res[t].kind = "env"

\* C25: when resolve has returned a credential, last_used of its account is
\* a time of the clock, not earlier than the start and not later than now.
C25_LastUsedSet ==
    \A t \in Callers :
        Resolved_ok(t) =>
            LET u == accounts[op[t].acc].last_used
            IN  u # NoneVal /\ StartMs <= u /\ u <= now

\* A resolve has succeeded after a refresh, and one on an API key.
C25_ResolvedAfterRefresh ==
    \E t \in Callers :
        /\ Resolved_ok(t)
        /\ op[t].acc = "acc_o"
        /\ res[t].val = NewAccess(0)

\* The row r is an API key's, or an OAuth row whose expires_at is 0 or has
\* not passed.
NoRefreshNeeded(r) ==
    r.auth_type = "api_key" \/ r.expires_at = 0 \/ now <= r.expires_at

\* u's resolve came after t's resolve of the same account, which is in the
\* table.
ResolvedTwice(t, u) ==
    /\ pc[t] = "done" /\ pc[u] = "done"
    /\ op[t].name = "resolve" /\ op[u].name = "resolve"
    /\ op[t].acc = op[u].acc /\ op[t].acc \in AccIds
    /\ ord[t].rank < ord[u].rank

\* C26: two resolves in a row of an account that needs no refresh return the
\* same value, send no refresh request, and leave expires_at and the three
\* secrets as the first resolve read them.
C26_ResolveTwiceSame ==
    \A t, u \in Callers :
        (ResolvedTwice(t, u) /\ NoRefreshNeeded(row[t])) =>
            LET a == accounts[op[t].acc]
            IN  /\ res[u] = res[t]
                /\ issued = 0
                /\ a.expires_at = row[t].expires_at
                /\ a.api_key_enc = row[t].api_key_enc
                /\ a.access_token_enc = row[t].access_token_enc
                /\ a.refresh_token_enc = row[t].refresh_token_enc

\* Two resolves in a row have returned the access token of an OAuth account
\* whose expiry is now and which has a refresh token.
C26_TwiceAtExpiry ==
    \E t, u \in Callers :
        /\ ResolvedTwice(t, u)
        /\ row[t].auth_type = "oauth"
        /\ row[t].expires_at = now
        /\ row[t].refresh_token_enc # EmptyCt
        /\ res[u].kind = "env"

\* What a resolve of account b returns in the current state: its
\* credential, or for an expired token whether the endpoint holds its
\* refresh token valid.
ResolveOf(b) ==
    LET r == accounts[b]
        api_key == decrypt(r.api_key_enc)
        access_token == decrypt(r.access_token_enc)
    IN  IF r.auth_type = "api_key"
        THEN (IF api_key = NoTok THEN Err("MissingCredential")
              ELSE Env("ANTHROPIC_API_KEY", api_key))
        ELSE IF access_token = NoTok THEN Err("MissingCredential")
        ELSE IF r.expires_at > 0 /\ now > r.expires_at
        THEN (IF decrypt(r.refresh_token_enc) \in validRt
              THEN [NoRes EXCEPT !.kind = "refreshable"]
              ELSE Err("CredentialExpired"))
        ELSE Env("CLAUDE_CODE_OAUTH_TOKEN", access_token)

\* C27: a step of a resolve, a refresh or a capture of one account leaves
\* the row of the other account as it is, and what a resolve of the other
\* account returns.
C27_OtherAccountKept ==
    [][\A t \in Callers :
          (pc[t] # "idle" /\ pc'[t] # pc[t]) =>
              \A b \in AccIds \ {op[t].acc} :
                  /\ accounts'[b] = accounts[b]
                  /\ ResolveOf(b)' = ResolveOf(b)]_vars

\* A refresh of the first account has succeeded and a request on the second
\* account has failed, and the second account's token has expired.
C27_OneFailedOneDone ==
    \E t, u \in Callers :
        /\ pc[t] = "done" /\ pc[u] = "done"
        /\ op[t].acc = "acc_o" /\ op[u].acc = "acc_k"
        /\ res[t].kind \in {"refreshed", "env"} /\ issued > 0
        /\ res[u].kind = "err"
        /\ accounts["acc_k"].auth_type = "oauth"
        /\ now > accounts["acc_k"].expires_at

\* C28: a step of terminal_input leaves the session table as it is, and
\* the bytes it writes reach no pty but that of the session it found
\* registered under its key.
C28_InputToOwnPty ==
    [][\A h \in Handlers :
          (op[h].name = "terminal_input" /\ pc'[h] # pc[h]) =>
              /\ terminals' = terminals
              /\ \A q \in Pids :
                    ptyIn'[q] # ptyIn[q] => q = hterm[h].pid]_vars

\* C29: a resize_terminal event raises nothing, whatever dimensions it
\* carries.
C29_ResizeRaisesNothing ==
    \A h \in Handlers :
        (op[h].name = "resize_terminal" /\ pc[h] = "done") =>
            res[h].kind # "raised"

\* A stop_terminal event has taken the record of session i out of
\* _terminals.
StoppedBy(h, i) ==
    /\ op[h].name = "stop_terminal"
    /\ pc[h] = "cl_close"
    /\ hterm[h].pid = i

\* C30: once a stop has taken a session's record, the session's read loop
\* ends.
C30_StoppedLoopEnds ==
    \A i \in Pids :
        (\E h \in Handlers : StoppedBy(h, i)) ~> (loop[i].pc = "ended")

\* C31: a watcher goes on to capture_oauth_tokens only with a modification
\* time read that is later than its baseline; after a failed attempt its
\* baseline is the modification time read and it polls again; it gets to
\* login_complete only from a capture that has returned, with the tokens of
\* the file stored in its account; and once it has returned it takes no
\* further step.
C31_WatcherCaptures ==
    [][\A w \in Watchers :
          LET i == SessionOf(w)
          IN  /\ (pc[w] # "cap_read" /\ pc'[w] = "cap_read") =>
                    wat'[i].cur > wat'[i].mtime_ref
              /\ pc[w] = "w_failed" =>
                    \/ pc'[w] = "w_failed"
                    \/ /\ pc'[w] = "w_check"
                       /\ wat'[i].mtime_ref = wat[i].cur
              /\ (pc[w] # "w_emit" /\ pc'[w] = "w_emit") =>
                    /\ pc[w] = "ua_update"
                    /\ res'[w].kind = "captured"
                    /\ decrypt(accounts'[op[w].acc].access_token_enc)
                          = resp[w].access_token
                    /\ resp[w].access_token # NoTok
              /\ pc[w] = "done" => pc'[w] = "done"]_vars

\* A watcher has emitted login_complete for the tokens of a login and
\* returned.
C31_Emitted ==
    \E w \in Watchers :
        /\ pc[w] = "done" /\ res[w].kind = "captured"
        /\ decrypt(accounts[op[w].acc].access_token_enc) = LoginAccess
        /\ wat[SessionOf(w)].cur > wat[SessionOf(w)].mtime_ref

\* C32: a call gets to the POST only from the checks of lines 317-331, for
\* a row that is an OAuth row with a refresh token, which it sends, and with
\* no request sent yet; a request is sent only there, and only by a call
\* that has sent none.
C32_OneRequest ==
    [][\A t \in Callers :
          /\ (pc[t] # "rf_post" /\ pc'[t] = "rf_post") =>
                LET r == SelectRow(op[t].acc)
                IN  /\ pc[t] = "rf_select"
                    /\ resp[t].status = "none"
                    /\ r # NoRow /\ r.auth_type = "oauth"
                    /\ r.refresh_token_enc # EmptyCt
                    /\ resp'[t].sent = decrypt(r.refresh_token_enc)
          /\ resp'[t].status # resp[t].status =>
                pc[t] = "rf_post" /\ resp[t].status = "none"]_vars

\* A refresh has failed on an unreachable endpoint, another on a row that
\* is no OAuth row.
C32_FailedOnce ==
    \E t, u \in Callers :
        /\ pc[t] = "done" /\ op[t].name = "refresh"
        /\ resp[t].status = "unreachable" /\ res[t].tag = "RefreshUnreachable"
        /\ pc[u] = "done" /\ op[u].name = "refresh"
        /\ res[u].tag = "NotOAuth" /\ resp[u].status = "none"

\* C33: when refresh_account has failed, its account does not hold the
\* tokens the endpoint issued to this call: it holds what it held before.
C33_FailedKeepsTokens ==
    \A t \in Callers :
        (pc[t] = "done" /\ op[t].name = "refresh" /\ res[t].kind = "err"
            /\ resp[t].status = "ok" /\ op[t].acc \in AccIds) =>
            LET a == accounts[op[t].acc]
            IN  /\ decrypt(a.access_token_enc) # resp[t].access_token
                /\ decrypt(a.refresh_token_enc) # resp[t].refresh_token

\* Session i was stopped (its child was sent SIGTERM by _cleanup_terminal),
\* and its key holds the record of another session, whose child is alive.
KeyTakenOver(i) ==
    LET s == sess[i].sid
    IN  /\ termSig[i] > 0
        /\ s \in DOMAIN terminals
        /\ terminals[s].pid # i
        /\ child[terminals[s].pid] = "running"

\* C34: the read loop of a session that was stopped emits neither
\* terminal_exit nor terminal_output, and its watcher no login_complete, to
\* a key that holds the record of another session whose child is alive.
C34_NoEventFromOldSession ==
    [][\A i \in Pids :
          KeyTakenOver(i) =>
              /\ loop'[i].pc = "ended" => loop[i].pc = "ended"
              /\ delivered'[i] = delivered[i]
              /\ pc'[WatcherOf(i)] = "done" =>
                    pc[WatcherOf(i)] \in {"done", "w_check"}]_vars

\* C35: every child that is running and was sent no SIGTERM has its record
\* in _terminals, or is in the hands of a handler that has forked it and is
\* about to register it, or has popped its record and is about to signal
\* it.
C35_NoOrphan ==
    \A i \in Pids :
        (child[i] = "running" /\ termSig[i] = 0) =>
            \/ Registered(i)
            \/ \E h \in Handlers :
                  /\ pc[h] \in {"register", "cl_close", "cl_kill"}
                  /\ hterm[h].pid = i

\* C36: when a resolve has failed with MissingCredential or
\* CredentialExpired, the row of its account is the row its SELECT read,
\* last_used included.
C36_FailedResolveKeepsRow ==
    \A t \in Callers :
        (/\ pc[t] = "done" /\ op[t].name = "resolve" /\ LastCall(t)
         /\ res[t] \in {Err("MissingCredential"), Err("CredentialExpired")}) =>
            accounts[op[t].acc] = row[t]

\* C37: when the only events are start requests and one of them has failed
\* before forking, it has emitted terminal_error and no terminal_started,
\* the children are those of the starts that succeeded, and every one of
\* them has its record and was sent no signal.
C37_FailedStartTouchesNothing ==
    \A h \in Handlers :
        (/\ \A g \in Handlers : op[g].name \in {"none", "start_terminal"}
         /\ \A g \in Handlers : pc[g] \in {"idle", "done"}
         /\ pc[h] = "done" /\ op[h].name = "start_terminal"
         /\ res[h] # Started) =>
            /\ res[h].kind = "err"
            /\ nforks = Cardinality({g \in Handlers : res[g] = Started})
            /\ \A i \in Pids :
                  child[i] # "none" => termSig[i] = 0 /\ Registered(i)

====
